---- MODULE Spec2Model ----
(***************************************************************************)
(* Apollo configuration client of pydantic-settings:                       *)
(*   - ApolloClient            (sources/providers/apollo/client.py)        *)
(*   - ApolloConfigMapping and ApolloSettingsSource of the package         *)
(*                             (sources/providers/apollo/mapping.py,       *)
(*                              sources/providers/apollo/source.py)        *)
(*   - ApolloConfigMapping of the flat module                              *)
(*                             (sources/providers/apollo.py)               *)
(* Each component has its own variables and its own specification; the    *)
(* actions of one component leave the variables of the others unchanged.  *)
(***************************************************************************)
EXTENDS Integers, Sequences, FiniteSets, TLC

(***************************************************************************)
(* Values shared by the components.                                        *)
(***************************************************************************)

\* Python's None, where a string is expected.
NoneKey == "None"

\* Keys and values of a configuration map; a map is a function over Keys
\* whose value Absent means "the dict has no such key".
Keys == {"k1", "k2"}
Absent == "absent"
EmptyMap == [k \in Keys |-> Absent]
ConfA == [k \in Keys |-> "a"]
ConfB == [k \in Keys |-> "b"]

\* Releases the remote service publishes: a release key names one content.
ReleaseKeys == {"r1", "r2"}
Published(rk) == IF rk = "r1" THEN ConfA ELSE ConfB

\* json.dumps of a dict of strings: the text is the set of its "key": "value"
\* members; json.load reads the members back.
JsonDumps(data) == {<<k, data[k]>> : k \in {q \in Keys : data[q] # Absent}}
JsonLoad(text) ==
    [k \in Keys |-> IF \E p \in text : p[1] = k
                    THEN (CHOOSE p \in text : p[1] = k)[2]
                    ELSE Absent]

\* A cache file: absent, unparsable, or the JSON text of a map.
NoFile == [kind |-> "nofile", text |-> {}]
CorruptFile == [kind |-> "corrupt", text |-> {}]
JsonFile(data) == [kind |-> "json", text |-> JsonDumps(data)]

\* What a cache file holds for a reader: the map of its JSON text, or the
\* empty map when there is no file or it cannot be parsed.
FileContent(f) ==
    IF f.kind = "json"
    THEN [k \in Keys |-> IF \E v \in {"a", "b"} : <<k, v>> \in f.text
                         THEN CHOOSE v \in {"a", "b"} : <<k, v>> \in f.text
                         ELSE Absent]
    ELSE EmptyMap

(***************************************************************************)
(* ApolloClient (client.py)                                                *)
(***************************************************************************)

\* The namespaces argument, in the order of _notification_map.keys().
NsOrder == <<"application", "dev.yml">>
Namespaces == {NsOrder[i] : i \in 1..Len(NsOrder)}

\* An entry of ApolloClient._cache: present is FALSE while the dict has no
\* entry for the namespace.
NoEntry == [present |-> FALSE, data |-> EmptyMap]
Entry(data) == [present |-> TRUE, data |-> data]

\* What the config request GET /configs/{app}/{cluster}/{ns} can end with.
HttpOutcomes ==
    {[kind |-> "ok", rk |-> r] : r \in ReleaseKeys}
    \cup {[kind |-> k, rk |-> NoneKey] :
            k \in {"non200", "timeout", "connerr", "malformed"}}

\* What the service discovery request GET /services/config can end with:
\* a 200 with a list of homepageUrl values, a 200 with an empty list, a
\* non-200 status, or a connection failure.
LocalHost == "http://localhost"
MetaOutcomes ==
    {[kind |-> "list", urls |-> u] :
        u \in {<<"http://cs1:8080/">>, <<LocalHost>>}}
    \cup {[kind |-> k, urls |-> <<>>] : k \in {"empty", "non200", "connerr"}}

\* What open(path, "w") of the cache file can end with.
WriteOutcomes == {"ok", "openfail"}

\* BasicException derives from BaseException, so ServerNotResponseException
\* and ApolloHttpError are not instances of Exception.
NoError == "none"
IsException(e) ==
    e \notin {NoError, "ServerNotResponseException", "ApolloHttpError"}

VARIABLES
    cache,      \* ApolloClient._cache
    hash,       \* ApolloClient._hash
    disk,       \* the cache files {app_id}_configuration_{ns}.txt
    host,       \* ApolloClient._config_server_host
    pc,         \* the constructing thread: "new", "fetching", "ready", "failed"
    fcIdx,      \* fetch_configuration: index in NsOrder of the next namespace, 0 when idle
    lastWritten,\* per namespace, the release key of the last completed file write
    lastOp      \* the call the last step made and how it ended

clientVars == <<cache, hash, disk, host, pc, fcIdx, lastWritten, lastOp>>

\* The fields of the client object the operations below read and write.
ClientState == [cache |-> cache, hash |-> hash, disk |-> disk, host |-> host]

Result(st, raised, wrote) == [st |-> st, raised |-> raised, wrote |-> wrote]

\* update_cache writing the new map into the existing dict key by key, as
\* other threads see it after the first key.
UpdateCacheKeyByKey(st, ns, data) ==
    [st EXCEPT !.cache[ns] =
        Entry([k \in Keys |-> IF k = "k1" THEN data[k] ELSE st.cache[ns].data[k]])]

\* update_cache
UpdateCache(st, ns, data) == [st EXCEPT !.cache[ns] = Entry(data)]

\* get_local_file_cache answering with the in-memory entry when the file
\* is missing or cannot be parsed.
GetLocalFileCacheFromMemory(st, ns) ==
    IF st.disk[ns].kind = "json" THEN JsonLoad(st.disk[ns].text)
    ELSE st.cache[ns].data

\* get_local_file_cache: FileNotFoundError and JSONDecodeError give {}.
GetLocalFileCache(st, ns) ==
    IF st.disk[ns].kind = "json" THEN JsonLoad(st.disk[ns].text) ELSE EmptyMap

\* update_local_file_cache without line 286: the release key is not recorded.
UpdateLocalFileCacheNoRecord(st, rk, data, ns, wr) ==
    IF st.hash[ns] # rk
    THEN IF wr = "ok"
         THEN Result([st EXCEPT !.disk[ns] = JsonFile(data)], NoError, TRUE)
         ELSE Result(st, "OSError", FALSE)
    ELSE Result(st, NoError, FALSE)

\* update_local_file_cache
UpdateLocalFileCache(st, rk, data, ns, wr) ==
    IF st.hash[ns] # rk
    THEN IF wr = "ok"
         THEN Result([st EXCEPT !.disk[ns] = JsonFile(data), !.hash[ns] = rk],
                     NoError, TRUE)
         ELSE Result(st, "OSError", FALSE)
    ELSE Result(st, NoError, FALSE)

\* _http_get: a timeout or a connection failure is raised as
\* ServerNotResponseException; any status is returned.
HttpGet(h) ==
    IF h.kind \in {"timeout", "connerr"}
    THEN [raised |-> "ServerNotResponseException", status |-> 0]
    ELSE [raised |-> NoError, status |-> IF h.kind = "non200" THEN 404 ELSE 200]

\* get_service_conf
GetServiceConf(m) ==
    CASE m.kind = "connerr" -> [raised |-> "ConnectionError", urls |-> <<>>]
      [] m.kind = "non200"  -> [raised |-> "ApolloHttpError", urls |-> <<>>]
      [] m.kind = "empty"   -> [raised |-> "ApolloHttpError", urls |-> <<>>]
      [] OTHER              -> [raised |-> NoError, urls |-> m.urls]

\* update_config_server: the selected address is the fixed
\* "http://localhost:8080", whose host part is "http://localhost".
UpdateConfigServer(st, exclude, m) ==
    LET g == GetServiceConf(m)
        conf == IF exclude # NoneKey
                THEN SelectSeq(g.urls, LAMBDA u : u # exclude)
                ELSE g.urls
    IN  IF g.raised # NoError THEN Result(st, g.raised, FALSE)
        ELSE IF Len(conf) = 0 THEN Result(st, "IndexError", FALSE)
        ELSE Result([st EXCEPT !.host = LocalHost], NoError, FALSE)

\* The try block with a non-200 branch that clears the entry instead of
\* loading the cache file.
FetchTryBodyNon200Clears(st, ns, h, wr) ==
    LET r == HttpGet(h) IN
    IF r.raised # NoError THEN Result(st, r.raised, FALSE)
    ELSE IF r.status = 200
    THEN IF h.kind = "malformed"
         THEN Result(st, "JSONDecodeError", FALSE)
         ELSE UpdateLocalFileCache(UpdateCache(st, ns, Published(h.rk)),
                                   h.rk, Published(h.rk), ns, wr)
    ELSE Result(UpdateCache(st, ns, EmptyMap), NoError, FALSE)

\* The try block of fetch_config_by_namespace (lines 339-361).
FetchTryBody(st, ns, h, wr) ==
    LET r == HttpGet(h) IN
    IF r.raised # NoError THEN Result(st, r.raised, FALSE)
    ELSE IF r.status = 200
    THEN IF h.kind = "malformed"
         THEN Result(st, "JSONDecodeError", FALSE)
         ELSE UpdateLocalFileCache(UpdateCache(st, ns, Published(h.rk)),
                                   h.rk, Published(h.rk), ns, wr)
    ELSE Result(UpdateCache(st, ns, GetLocalFileCache(st, ns)), NoError, FALSE)

\* The except block of fetch_config_by_namespace (lines 363-370).
FetchExceptBody(st, ns, m) ==
    LET s == UpdateCache(st, ns, GetLocalFileCache(st, ns))
    IN  UpdateConfigServer(s, s.host, m)

\* fetch_config_by_namespace: except Exception catches what IsException holds of.
FetchConfigByNamespace(st, ns, h, wr, m) ==
    LET b == FetchTryBody(st, ns, h, wr) IN
    IF b.raised = NoError THEN b
    ELSE IF IsException(b.raised)
    THEN LET e == FetchExceptBody(b.st, ns, m)
         IN  Result(e.st, e.raised, b.wrote)
    ELSE b

\* "_"-separated parts of a namespace name, as str.split("_") gives them.
NsSegments(ns) == IF ns = "my_ns" THEN <<"my", "ns">> ELSE <<ns>>

\* load_local_cache_file names the cache entry by the text after the last "_"
\* of the file name without its extension.
NamespaceOfFile(ns) == NsSegments(ns)[Len(NsSegments(ns))]

\* load_local_cache_file over the files in the order os.listdir gives them:
\* the first unparsable file ends the loop (except Exception: return False).
RECURSIVE LoadFiles(_, _, _)
LoadFiles(st, order, i) ==
    IF i > Len(order) THEN st
    ELSE LET f == st.disk[order[i]] IN
         IF f.kind = "nofile" THEN LoadFiles(st, order, i + 1)
         ELSE IF f.kind = "corrupt" THEN st
         ELSE LoadFiles(UpdateCache(st, NamespaceOfFile(order[i]), JsonLoad(f.text)),
                        order, i + 1)

LoadLocalCacheFile(st, order) == LoadFiles(st, order, 1)

ListdirOrders == {<<NsOrder[1], NsOrder[2]>>, <<NsOrder[2], NsOrder[1]>>}

\* fetch_configuration's handling of what one fetch_config_by_namespace
\* raised: requests' ConnectionError is caught and the cache files are
\* loaded; ReadTimeout is caught; anything else propagates.
FetchConfigurationCatches(e) == e \in {"ConnectionError", "ReadTimeout"}

OpRecord(op, ns, http, rk, raised, wrote, fc, init) ==
    [op |-> op, ns |-> ns, http |-> http, rk |-> rk, raised |-> raised,
     wrote |-> wrote, fc |-> fc, init |-> init]

\* "n/a": the step did not end a fetch_configuration call or the constructor.
NA == "n/a"

ClientInit ==
    /\ cache = [n \in Namespaces |-> NoEntry]
    /\ hash = [n \in Namespaces |-> NoneKey]
    /\ disk \in [Namespaces -> {NoFile, CorruptFile, JsonFile(ConfA)}]
    /\ host = NoneKey
    /\ pc = "new"
    /\ fcIdx = 0
    /\ lastWritten = [n \in Namespaces |-> NoneKey]
    /\ lastOp = OpRecord("none", NoneKey, "none", NoneKey, NoError, FALSE, NA, NA)

Install(st) ==
    /\ cache' = st.cache
    /\ hash' = st.hash
    /\ disk' = st.disk
    /\ host' = st.host

\* __init__ up to update_config_server() (lines 127-152).
ConstructStart(m) ==
    /\ pc = "new"
    /\ LET u == UpdateConfigServer(ClientState, NoneKey, m) IN
       /\ Install(u.st)
       /\ pc' = IF u.raised = NoError THEN "fetching" ELSE "failed"
       /\ fcIdx' = IF u.raised = NoError THEN 1 ELSE 0
       /\ lastOp' = OpRecord("update_config_server", NoneKey, "none", NoneKey,
                             u.raised, FALSE, NA,
                             IF u.raised = NoError THEN NA ELSE u.raised)
    /\ UNCHANGED lastWritten

\* One call of fetch_config_by_namespace(ns): a direct call on the constructed
\* client, or the next iteration of fetch_configuration's loop (from __init__
\* or from a later call), whose except clauses and return follow it.
FetchCall(ns, h, wr, m, order) ==
    /\ \/ pc = "ready" /\ fcIdx = 0
       \/ fcIdx > 0 /\ ns = NsOrder[fcIdx]
    /\ LET res == FetchConfigByNamespace(ClientState, ns, h, wr, m)
           caught == res.raised # NoError /\ FetchConfigurationCatches(res.raised)
           st2 == IF fcIdx > 0 /\ res.raised = "ConnectionError"
                  THEN LoadLocalCacheFile(res.st, order) ELSE res.st
           ends == fcIdx > 0 /\ (res.raised # NoError \/ fcIdx = Len(NsOrder))
           fcEnd == IF ~ends THEN NA
                    ELSE IF res.raised = NoError \/ caught THEN NoError
                    ELSE res.raised
       IN
       /\ Install(st2)
       /\ lastWritten' = IF res.wrote THEN [lastWritten EXCEPT ![ns] = h.rk]
                         ELSE lastWritten
       /\ fcIdx' = IF fcIdx = 0 \/ ends THEN 0 ELSE fcIdx + 1
       /\ pc' = IF pc = "fetching" /\ ends
                THEN (IF fcEnd = NoError THEN "ready" ELSE "failed")
                ELSE pc
       /\ lastOp' = OpRecord("fetch_config_by_namespace", ns, h.kind, h.rk,
                             res.raised, res.wrote, fcEnd,
                             IF pc = "fetching" /\ ends THEN fcEnd ELSE NA)

UnusedMeta == [kind |-> "list", urls |-> <<LocalHost>>]
UnusedOrder == NsOrder

\* The config request is answered 200 with a published release.
FetchOk(ns, rk) ==
    FetchCall(ns, [kind |-> "ok", rk |-> rk], "ok", UnusedMeta, UnusedOrder)

\* 200, but the cache file cannot be opened for writing.
FetchOkWriteFails(ns, rk, m, order) ==
    FetchCall(ns, [kind |-> "ok", rk |-> rk], "openfail", m, order)

\* The config request is answered with a non-200 status.
FetchNon200(ns) ==
    FetchCall(ns, [kind |-> "non200", rk |-> NoneKey], "ok", UnusedMeta, UnusedOrder)

\* The config request times out or cannot connect.
FetchTransportFails(ns, kind) ==
    FetchCall(ns, [kind |-> kind, rk |-> NoneKey], "ok", UnusedMeta, UnusedOrder)

\* 200 with a body that is not JSON.
FetchMalformed(ns, m, order) ==
    FetchCall(ns, [kind |-> "malformed", rk |-> NoneKey], "ok", m, order)

\* A call of fetch_configuration() on the constructed client (the polling
\* thread's, or the application's) enters its loop.
FetchConfigurationStart ==
    /\ pc = "ready" /\ fcIdx = 0
    /\ fcIdx' = 1
    /\ lastOp' = OpRecord("fetch_configuration", NoneKey, "none", NoneKey,
                          NoError, FALSE, NA, NA)
    /\ UNCHANGED <<cache, hash, disk, host, pc, lastWritten>>

\* A direct call of update_local_file_cache(rk, data, ns).
Persist(ns, rk, wr) ==
    /\ pc = "ready" /\ fcIdx = 0
    /\ LET res == UpdateLocalFileCache(ClientState, rk, Published(rk), ns, wr) IN
       /\ Install(res.st)
       /\ lastWritten' = IF res.wrote THEN [lastWritten EXCEPT ![ns] = rk]
                         ELSE lastWritten
       /\ lastOp' = OpRecord("update_local_file_cache", ns, "none", rk,
                             res.raised, res.wrote, NA, NA)
    /\ UNCHANGED <<pc, fcIdx>>

(***************************************************************************)
(* Keys, snapshots and the clock of the two ApolloConfigMapping classes.   *)
(***************************************************************************)

\* Keys a snapshot can store and keys a lookup can ask for.
StoredKeys == {"key", "Key"}
LookupKeys == {"key", "Key", "KEY"}

\* str.lower() on these keys.
Lower(k) == IF k \in {"key", "Key", "KEY"} THEN "key" ELSE k

\* Snapshots the remote service serves: one stores the key in lower case,
\* one with a capital, one is the empty map.
SnapEmpty == [k \in StoredKeys |-> Absent]
SnapLower == [k \in StoredKeys |-> IF k = "key" THEN "v1" ELSE Absent]
SnapUpper == [k \in StoredKeys |-> IF k = "Key" THEN "v2" ELSE Absent]

\* refresh_interval, in clock ticks.
RefreshInterval == 1
\* time.time() is seconds since 1970: the first lookup finds the initial
\* timestamp 0 older than refresh_interval.
StartTime == RefreshInterval + 1
\* Ticks of the clock after a snapshot has gone stale.
Horizon == 1
MaxTime == StartTime + RefreshInterval + Horizon

(***************************************************************************)
(* ApolloConfigMapping of the flat module (apollo.py)                      *)
(***************************************************************************)

\* A value of _notification_id: the int it starts with, or the string a
\* response's releaseKey put there.
IntId(i) == <<"int", i>>
StrId(x) == <<"str", x>>

\* Largest notificationId the service answers with.
MaxNotifId == 3

\* What GET /configs/... can end with for the flat mapping: 200 with a JSON
\* body (with or without releaseKey), another status, or an exception
\* (requests raises, or the body is not JSON).
FlatHttpOutcomes ==
    {[kind |-> "ok", conf |-> SnapLower, rk |-> "r1"],
     [kind |-> "ok", conf |-> SnapUpper, rk |-> "r2"],
     [kind |-> "ok", conf |-> SnapEmpty, rk |-> "r3"],
     [kind |-> "ok", conf |-> SnapLower, rk |-> NoneKey],
     [kind |-> "non200", conf |-> SnapEmpty, rk |-> NoneKey],
     [kind |-> "error", conf |-> SnapEmpty, rk |-> NoneKey]}

\* What GET /notifications/v2 can end with: 200 with a list whose first
\* entry carries notificationId id, 200 with an empty list (id 0), 304, or
\* an exception (timeout).
NotifOutcomes ==
    {[kind |-> "ok", id |-> i] : i \in 1..MaxNotifId}
    \cup {[kind |-> k, id |-> 0] : k \in {"empty", "304", "error"}}

VARIABLES
    fConfigs,   \* _loaded_configs
    fLastUpdate,\* _last_update_time
    fNotifId,   \* _notification_id
    fCase,      \* _case_sensitive
    fNow,       \* time.time()
    fSnapAt,    \* when the map in _loaded_configs was fetched
    fServerId,  \* the notificationId of the service's last 200 answer
    fLast       \* the call the last step made and how it ended

flatVars == <<fConfigs, fLastUpdate, fNotifId, fCase, fNow, fSnapAt, fServerId, fLast>>

FlatState == [configs |-> fConfigs, last |-> fLastUpdate, nid |-> fNotifId,
              snapAt |-> fSnapAt]

\* _load_configs with the update time stamped whatever the request ended
\* with.
FlatLoadConfigsStampsFailure(st, h, now) ==
    IF h.kind = "ok" /\ h.conf # SnapEmpty
    THEN [configs |-> h.conf, last |-> now,
          nid |-> IF h.rk # NoneKey THEN StrId(h.rk) ELSE st.nid,
          snapAt |-> now]
    ELSE [st EXCEPT !.last = now]

\* _load_configs (apollo.py): a 200 whose configurations is a non-empty map
\* installs it; everything else, exceptions included, changes nothing.
FlatLoadConfigs(st, h, now) ==
    IF h.kind = "ok" /\ h.conf # SnapEmpty
    THEN [configs |-> h.conf, last |-> now,
          nid |-> IF h.rk # NoneKey THEN StrId(h.rk) ELSE st.nid,
          snapAt |-> now]
    ELSE st

\* What the try body of _load_configs can raise for an outcome: requests.get
\* raises a RequestException, response.json() a JSONDecodeError (a
\* ValueError); a 200 whose body parses and any other status raise nothing.
FlatRaises(h) ==
    IF h.kind = "error" THEN {"RequestException", "JSONDecodeError"} ELSE {}

\* The exceptions `except Exception` (apollo.py line 64) lets out of
\* _load_configs.
FlatEscapes(h) == {e \in FlatRaises(h) : ~IsException(e)}

\* The refresh check with refresh_interval taken for milliseconds.
FlatIsStaleMillis(st, now) == now - st.last > RefreshInterval * 1000

\* The refresh check of __getitem__ (apollo.py lines 101-102).
FlatIsStale(st, now) == now - st.last > RefreshInterval

\* __getitem__ (apollo.py): the key is lower-cased when the mapping is not
\* case sensitive, the stored keys are not; None (Absent) when not found.
FlatGetItem(st, cs, key) ==
    LET k == IF ~cs THEN Lower(key) ELSE key
    IN  IF k \in StoredKeys THEN st.configs[k] ELSE Absent

\* What the refresh of a call got from the config request, for the record
\* of the call.
FlatLabel(fetched, h) ==
    IF ~fetched THEN "none"
    ELSE IF h.kind = "ok" /\ h.conf = SnapEmpty THEN "ok-empty"
    ELSE h.kind

FlatOp(op, key, result, fetched, http, id) ==
    [op |-> op, key |-> key, result |-> result, fetched |-> fetched,
     http |-> http, id |-> id]

FlatInit ==
    /\ fConfigs = SnapEmpty
    /\ fLastUpdate = 0
    /\ fNotifId = IntId(-1)
    /\ fCase \in BOOLEAN
    /\ fNow = StartTime
    /\ fSnapAt = 0
    /\ fServerId = 0
    /\ fLast = FlatOp("none", NoneKey, Absent, FALSE, "none", 0)

FlatInstall(st) ==
    /\ fConfigs' = st.configs
    /\ fLastUpdate' = st.last
    /\ fNotifId' = st.nid
    /\ fSnapAt' = st.snapAt

\* The clock advances.
FlatTick ==
    /\ fNow < MaxTime
    /\ fNow' = fNow + 1
    /\ fLast' = FlatOp("tick", NoneKey, Absent, FALSE, "none", 0)
    /\ UNCHANGED <<fConfigs, fLastUpdate, fNotifId, fCase, fSnapAt, fServerId>>

\* mapping[key]: __getitem__ with its refresh when stale.
FlatLookup(key, h) ==
    LET stale == FlatIsStale(FlatState, fNow)
        st == IF stale THEN FlatLoadConfigs(FlatState, h, fNow) ELSE FlatState
    IN  /\ FlatInstall(st)
        /\ fLast' = FlatOp("getitem", key, FlatGetItem(st, fCase, key), stale,
                           FlatLabel(stale, h), 0)
        /\ UNCHANGED <<fCase, fNow, fServerId>>

\* One iteration of notification_worker: the long poll is answered, and
\* _load_configs runs when the first entry's notificationId differs from
\* _notification_id. The service's ids never decrease.
FlatNotification(n, h) ==
    /\ n.kind = "ok" => n.id >= fServerId
    /\ LET differs == n.kind = "ok" /\ IntId(n.id) # fNotifId
           st == IF differs THEN FlatLoadConfigs(FlatState, h, fNow) ELSE FlatState
       IN  /\ FlatInstall(st)
           /\ fLast' = FlatOp("notification", NoneKey, Absent, differs, n.kind, n.id)
    /\ fServerId' = IF n.kind = "ok" THEN n.id ELSE fServerId
    /\ UNCHANGED <<fCase, fNow>>

(***************************************************************************)
(* ApolloConfigMapping and ApolloSettingsSource of the package             *)
(* (apollo/mapping.py, apollo/source.py)                                   *)
(***************************************************************************)

\* What ApolloHttpClient.get_config(namespace) can end with: the response
\* dict with "configurations" and "releaseKey", None, or an exception
\* (requests' HTTPError for an unknown namespace or application, a
\* connection failure).
GetConfigOutcomes ==
    {[kind |-> "config", conf |-> c] : c \in {SnapLower, SnapUpper, SnapEmpty}}
    \cup {[kind |-> k, conf |-> SnapEmpty] : k \in {"none", "raise"}}

\* The exception get_config raises.
GetConfig(g) == IF g.kind = "raise" THEN "HTTPError" ELSE NoError

\* The declared field names ApolloSettingsSource.__call__ looks up, in order.
Fields == <<"key", "KEY">>

VARIABLES
    mConfigs,     \* _configs
    mLastRefresh, \* _last_refresh_time
    mCase,        \* case_sensitive
    mThread,      \* _notification_thread: "none" or "alive"
    mNow,         \* time.time()
    mSnapAt,      \* when the map in _configs was fetched
    mLast         \* the call the last step made and how it ended

pkgVars == <<mConfigs, mLastRefresh, mCase, mThread, mNow, mSnapAt, mLast>>

PkgState == [configs |-> mConfigs, last |-> mLastRefresh, thread |-> mThread,
             snapAt |-> mSnapAt]

\* The assignment _load_configs and the notification callback make under
\* the lock when config is truthy and has "configurations".
PkgInstallConfig(st, g, now) ==
    IF g.kind = "config"
    THEN [st EXCEPT !.configs = g.conf, !.last = now, !.snapAt = now]
    ELSE st

\* _load_configs (mapping.py): what get_config raises is logged and raised
\* again.
PkgLoadConfigs(st, g, now) ==
    IF GetConfig(g) # NoError
    THEN [st |-> st, raised |-> GetConfig(g)]
    ELSE [st |-> PkgInstallConfig(st, g, now), raised |-> NoError]

\* The refresh check of __getitem__ (mapping.py lines 100-101).
PkgIsStale(st, now) == now - st.last > RefreshInterval

\* The lookup of __getitem__ under the lock (lines 108-115): a scan that
\* lower-cases the stored keys when the mapping is not case sensitive.
PkgFind(st, cs, key) ==
    IF ~cs
    THEN LET hits == {k \in StoredKeys :
                        st.configs[k] # Absent /\ Lower(k) = Lower(key)}
         IN  IF hits = {} THEN [raised |-> "KeyError", value |-> Absent]
             ELSE [raised |-> NoError,
                   value |-> st.configs[CHOOSE k \in hits : TRUE]]
    ELSE IF key \in StoredKeys /\ st.configs[key] # Absent
         THEN [raised |-> NoError, value |-> st.configs[key]]
         ELSE [raised |-> "KeyError", value |-> Absent]

\* __getitem__ (mapping.py): refresh when stale, start the notification
\* thread, look the key up.
PkgGetItem(st, cs, key, g, now) ==
    LET stale == PkgIsStale(st, now)
        l == IF stale THEN PkgLoadConfigs(st, g, now)
             ELSE [st |-> st, raised |-> NoError]
    IN  IF l.raised # NoError
        THEN [st |-> l.st, raised |-> l.raised, value |-> Absent, fetched |-> stale]
        ELSE LET s2 == [l.st EXCEPT !.thread = "alive"]
                 f == PkgFind(s2, cs, key)
             IN  [st |-> s2, raised |-> f.raised, value |-> f.value, fetched |-> stale]

\* get (mapping.py): KeyError gives the default (Absent stands for it).
PkgGet(st, cs, key, g, now) ==
    LET r == PkgGetItem(st, cs, key, g, now)
    IN  IF r.raised = "KeyError" THEN [r EXCEPT !.raised = NoError] ELSE r

\* The loop of ApolloSettingsSource.__call__ (source.py lines 61-68) from
\* field i on: a KeyError skips the field, any other exception ends the call.
RECURSIVE SourceLoop(_, _, _, _, _, _)
SourceLoop(st, cs, gs, now, i, fetched) ==
    IF i > Len(Fields)
    THEN [st |-> st, raised |-> NoError, value |-> Absent, fetched |-> fetched]
    ELSE LET r == PkgGetItem(st, cs, Fields[i], gs[i], now) IN
         IF r.raised \notin {NoError, "KeyError"}
         THEN [st |-> r.st, raised |-> r.raised, value |-> Absent,
               fetched |-> fetched \/ r.fetched]
         ELSE SourceLoop(r.st, cs, gs, now, i + 1, fetched \/ r.fetched)

SourceCall(st, cs, gs, now) == SourceLoop(st, cs, gs, now, 1, FALSE)

PkgOp(op, key, r, g) ==
    [op |-> op, key |-> key, raised |-> r.raised, value |-> r.value,
     fetched |-> r.fetched, got |-> g]

PkgInit ==
    /\ mConfigs = SnapEmpty
    /\ mLastRefresh = 0
    /\ mCase \in BOOLEAN
    /\ mThread = "none"
    /\ mNow = StartTime
    /\ mSnapAt = 0
    /\ mLast = [op |-> "none", key |-> NoneKey, raised |-> NoError,
                value |-> Absent, fetched |-> FALSE, got |-> "none"]

PkgInstall(st) ==
    /\ mConfigs' = st.configs
    /\ mLastRefresh' = st.last
    /\ mThread' = st.thread
    /\ mSnapAt' = st.snapAt

\* The clock advances.
PkgTick ==
    /\ mNow < MaxTime
    /\ mNow' = mNow + 1
    /\ mLast' = [mLast EXCEPT !.op = "tick", !.key = NoneKey, !.raised = NoError,
                              !.value = Absent, !.fetched = FALSE, !.got = "none"]
    /\ UNCHANGED <<mConfigs, mLastRefresh, mCase, mThread, mSnapAt>>

\* What the refresh of a call got from get_config, for the record of the call.
GotLabel(fetched, g) ==
    IF ~fetched THEN "not-called" ELSE g.kind

\* mapping[key]
PkgLookup(key, g) ==
    LET r == PkgGetItem(PkgState, mCase, key, g, mNow) IN
    /\ PkgInstall(r.st)
    /\ mLast' = PkgOp("getitem", key, r, GotLabel(r.fetched, g))
    /\ UNCHANGED <<mCase, mNow>>

\* mapping.get(key)
PkgLookupGet(key, g) ==
    LET r == PkgGet(PkgState, mCase, key, g, mNow) IN
    /\ PkgInstall(r.st)
    /\ mLast' = PkgOp("get", key, r, GotLabel(r.fetched, g))
    /\ UNCHANGED <<mCase, mNow>>

\* source(settings): ApolloSettingsSource.__call__
PkgSourceCall(gs) ==
    LET r == SourceCall(PkgState, mCase, gs, mNow) IN
    /\ PkgInstall(r.st)
    /\ mLast' = PkgOp("call", NoneKey, r, GotLabel(r.fetched, gs[1]))
    /\ UNCHANGED <<mCase, mNow>>

\* The notification thread's long_polling reports a change and the
\* callback on_config_update installs the configuration it is given.
PkgNotification(g) ==
    /\ mThread = "alive"
    /\ g.kind # "raise"
    /\ PkgInstall(PkgInstallConfig(PkgState, g, mNow))
    /\ mLast' = [op |-> "notification", key |-> NoneKey, raised |-> NoError,
                 value |-> Absent, fetched |-> TRUE, got |-> GotLabel(TRUE, g)]
    /\ UNCHANGED <<mCase, mNow>>

\* __contains__ (mapping.py lines 117-130): the test on _configs as it is,
\* without a refresh and without the lock.
PkgContains(st, cs, key) ==
    IF ~cs
    THEN \E k \in StoredKeys : st.configs[k] # Absent /\ Lower(k) = Lower(key)
    ELSE key \in StoredKeys /\ st.configs[key] # Absent

\* key in mapping
PkgContainsCall(key) ==
    /\ mLast' = [op |-> "contains", key |-> key, raised |-> NoError,
                 value |-> Absent, fetched |-> FALSE,
                 got |-> IF PkgContains(PkgState, mCase, key) THEN "True" ELSE "False"]
    /\ UNCHANGED <<mConfigs, mLastRefresh, mCase, mThread, mNow, mSnapAt>>

(***************************************************************************)
(* A reader running while another thread refreshes                         *)
(* (ApolloClient.get_value against fetch_config_by_namespace;              *)
(*  the package's __getitem__ against the notification callback)           *)
(***************************************************************************)

VARIABLES
    rPc,      \* the reading thread's position in get_value / __getitem__
    rArg,     \* the namespace and key of its call
    rRef,     \* the dict it holds: loaded from _cache, or fetched by get_config
    rOut,     \* what its last call ended with
    rLin,     \* the snapshot in force at the moment it read the dict
    rRaced,   \* a refresh replaced the snapshot while the call was running
    wPc,      \* the refreshing thread's position
    wArg,     \* the namespace whose except block it is about to run
    lock,     \* ApolloConfigMapping._lock: "free" or its holder
    intended  \* the map last handed to an install (per namespace for the client)

thrVars == <<rPc, rArg, rRef, rOut, rLin, rRaced, wPc, wArg, lock, intended>>

\* No thread has started.
ThreadsStart ==
    /\ rPc = "idle"
    /\ rArg = [ns |-> NA, key |-> NoneKey]
    /\ rRef = EmptyMap
    /\ rOut = [raised |-> NoError, value |-> Absent]
    /\ rLin = NoEntry
    /\ rRaced = FALSE
    /\ wPc = "idle"
    /\ wArg = NA
    /\ lock = "free"

\* get_value line 465: namespace in self._cache
CacheHas(st, ns) == st.cache[ns].present

\* get_value line 466: self._cache[namespace]
CacheLoad(st, ns) ==
    IF st.cache[ns].present
    THEN [raised |-> NoError, ref |-> st.cache[ns].data]
    ELSE [raised |-> "KeyError", ref |-> EmptyMap]

\* get_value line 466: .get(key, default_val); Absent stands for default_val.
DictGet(ref, key) == ref[key]

\* What an entry gives for a key: its value, or the default.
EntryGet(entry, key) == IF entry.present THEN entry.data[key] ELSE Absent

\* get_value: the membership test.
GetValueCheck(ns, key) ==
    /\ pc = "ready"
    /\ rPc \in {"idle", "done"}
    /\ rArg' = [ns |-> ns, key |-> key]
    /\ rRaced' = FALSE
    /\ IF CacheHas(ClientState, ns)
       THEN /\ rPc' = "checked"
            /\ UNCHANGED <<rRef, rOut, rLin>>
       ELSE /\ rPc' = "done"
            /\ rOut' = [raised |-> NoError, value |-> Absent]
            /\ rLin' = intended[ns]
            /\ UNCHANGED rRef
    /\ UNCHANGED <<wPc, wArg, lock, intended, clientVars>>

\* get_value: the subscript; a KeyError is caught and gives the default.
GetValueLoad ==
    /\ rPc = "checked"
    /\ LET l == CacheLoad(ClientState, rArg.ns) IN
       /\ rLin' = intended[rArg.ns]
       /\ IF l.raised = NoError
          THEN rPc' = "loaded" /\ rRef' = l.ref /\ UNCHANGED rOut
          ELSE /\ rPc' = "done"
               /\ rOut' = [raised |-> NoError, value |-> Absent]
               /\ UNCHANGED rRef
    /\ UNCHANGED <<rArg, rRaced, wPc, wArg, lock, intended, clientVars>>

\* get_value: .get on the loaded dict, and the return.
GetValueReturn ==
    /\ rPc = "loaded"
    /\ rPc' = "done"
    /\ rOut' = [raised |-> NoError, value |-> DictGet(rRef, rArg.key)]
    /\ UNCHANGED <<rArg, rRef, rLin, rRaced, wPc, wArg, lock, intended, clientVars>>

\* How fetch_configuration's loop, or a direct call, goes on after one
\* fetch_config_by_namespace that ended with raised.
AfterFetch(raised) ==
    LET ends == fcIdx > 0 /\ (raised # NoError \/ fcIdx = Len(NsOrder))
        ok == raised = NoError \/ FetchConfigurationCatches(raised)
    IN  /\ fcIdx' = IF fcIdx = 0 \/ ends THEN 0 ELSE fcIdx + 1
        /\ pc' = IF pc = "fetching" /\ ends
                 THEN (IF ok THEN "ready" ELSE "failed")
                 ELSE pc

\* The reader's call is running and this step changes its namespace's entry.
RacesReader(ns, newCache) ==
    /\ rPc \in {"checked", "loaded"}
    /\ rArg.ns = ns
    /\ newCache[ns] # cache[ns]

\* The refreshing thread runs the try block of fetch_config_by_namespace(ns).
RefreshTry(ns, h, wr) ==
    /\ wPc = "idle"
    /\ \/ pc = "ready" /\ fcIdx = 0
       \/ fcIdx > 0 /\ ns = NsOrder[fcIdx]
    /\ LET b == FetchTryBody(ClientState, ns, h, wr)
           toExcept == b.raised # NoError /\ IsException(b.raised)
       IN
       /\ Install(b.st)
       /\ intended' =
            IF h.kind = "ok"
            THEN [intended EXCEPT ![ns] = Entry(Published(h.rk))]
            ELSE IF h.kind = "non200"
            THEN [intended EXCEPT ![ns] = Entry(FileContent(disk[ns]))]
            ELSE intended
       /\ rRaced' = (rRaced \/ RacesReader(ns, b.st.cache))
       /\ IF toExcept
          THEN wPc' = "except" /\ wArg' = ns /\ UNCHANGED <<pc, fcIdx>>
          ELSE wPc' = "idle" /\ wArg' = NA /\ AfterFetch(b.raised)
    /\ UNCHANGED <<lastWritten, lastOp, rPc, rArg, rRef, rOut, rLin, lock>>

\* load_local_cache_file reaches the file of n: it is listed, and no file
\* listed before it is unparsable.
FileReached(order, n) ==
    /\ disk[n].kind = "json"
    /\ \A i, j \in 1..Len(order) :
          (order[j] = n /\ i < j) => disk[order[i]].kind # "corrupt"

\* The refreshing thread runs the except block, and fetch_configuration's
\* except clause if the block raises a ConnectionError.
RefreshExcept(m, order) ==
    /\ wPc = "except"
    /\ LET ns == wArg
           e == FetchExceptBody(ClientState, ns, m)
           loads == fcIdx > 0 /\ e.raised = "ConnectionError"
           st2 == IF loads THEN LoadLocalCacheFile(e.st, order) ELSE e.st
       IN
       /\ Install(st2)
       /\ intended' =
            [n \in Namespaces |->
                IF n = ns \/ (loads /\ FileReached(order, n))
                THEN Entry(FileContent(disk[n]))
                ELSE intended[n]]
       /\ rRaced' = (rRaced \/ RacesReader(ns, st2.cache))
       /\ AfterFetch(e.raised)
    /\ wPc' = "idle"
    /\ wArg' = NA
    /\ UNCHANGED <<lastWritten, lastOp, rPc, rArg, rRef, rOut, rLin, lock>>

\* __getitem__ of the package up to the refresh check (lines 96-100).
PkgReadBegin(key) ==
    /\ rPc \in {"idle", "done"}
    /\ rArg' = [ns |-> NA, key |-> key]
    /\ rRaced' = FALSE
    /\ rPc' = IF PkgIsStale(PkgState, mNow) THEN "fetch" ELSE "thread"
    /\ UNCHANGED <<rRef, rOut, rLin, wPc, wArg, lock, intended, pkgVars>>

\* _load_configs: get_config returns or raises.
PkgReadFetch(g) ==
    /\ rPc = "fetch"
    /\ IF GetConfig(g) # NoError
       THEN /\ rPc' = "done"
            /\ rOut' = [raised |-> GetConfig(g), value |-> Absent]
            /\ rLin' = intended
            /\ UNCHANGED rRef
       ELSE /\ rPc' = IF g.kind = "config" THEN "install" ELSE "thread"
            /\ rRef' = g.conf
            /\ UNCHANGED <<rOut, rLin>>
    /\ UNCHANGED <<rArg, rRaced, wPc, wArg, lock, intended, pkgVars>>

\* _load_configs: the lock is taken and _configs assigned (lines 50-51).
PkgReadInstall ==
    /\ rPc = "install"
    /\ lock = "free"
    /\ lock' = "reader"
    /\ rPc' = "stamp"
    /\ LET s == PkgInstallConfig(PkgState, [kind |-> "config", conf |-> rRef], mNow)
       IN  mConfigs' = s.configs /\ mSnapAt' = s.snapAt
    /\ intended' = Entry(rRef)
    /\ UNCHANGED <<rArg, rRef, rOut, rLin, rRaced, wPc, wArg,
                   mLastRefresh, mCase, mThread, mNow, mLast>>

\* _load_configs: _last_refresh_time assigned, the lock released (line 52).
PkgReadStamp ==
    /\ rPc = "stamp"
    /\ mLastRefresh' = mNow
    /\ lock' = "free"
    /\ rPc' = "thread"
    /\ UNCHANGED <<rArg, rRef, rOut, rLin, rRaced, wPc, wArg, intended,
                   mConfigs, mCase, mThread, mNow, mSnapAt, mLast>>

\* __getitem__: _start_notification_thread (line 104).
PkgReadStartThread ==
    /\ rPc = "thread"
    /\ mThread' = "alive"
    /\ rPc' = "lookup"
    /\ UNCHANGED <<rArg, rRef, rOut, rLin, rRaced, wPc, wArg, lock, intended,
                   mConfigs, mLastRefresh, mCase, mNow, mSnapAt, mLast>>

\* __getitem__: the lookup under the lock and the return (lines 107-115).
PkgReadLookup ==
    /\ rPc = "lookup"
    /\ lock = "free"
    /\ LET f == PkgFind(PkgState, mCase, rArg.key)
       IN  rOut' = [raised |-> f.raised, value |-> f.value]
    /\ rLin' = intended
    /\ rPc' = "done"
    /\ UNCHANGED <<rArg, rRef, rRaced, wPc, wArg, lock, intended, pkgVars>>

\* on_config_update in the notification thread: the lock is taken and
\* _configs assigned (lines 74-75).
PkgNotifyInstall(g) ==
    /\ mThread = "alive"
    /\ wPc = "idle"
    /\ lock = "free"
    /\ g.kind = "config"
    /\ lock' = "notifier"
    /\ wPc' = "stamp"
    /\ LET s == PkgInstallConfig(PkgState, g, mNow)
       IN  mConfigs' = s.configs /\ mSnapAt' = s.snapAt
    /\ intended' = Entry(g.conf)
    /\ rRaced' = (rRaced \/ (rPc \notin {"idle", "done"} /\ g.conf # mConfigs))
    /\ UNCHANGED <<rPc, rArg, rRef, rOut, rLin, wArg,
                   mLastRefresh, mCase, mThread, mNow, mLast>>

\* on_config_update: _last_refresh_time assigned, the lock released (line 76).
PkgNotifyStamp ==
    /\ wPc = "stamp"
    /\ mLastRefresh' = mNow
    /\ lock' = "free"
    /\ wPc' = "idle"
    /\ UNCHANGED <<rPc, rArg, rRef, rOut, rLin, rRaced, wArg, intended,
                   mConfigs, mCase, mThread, mNow, mSnapAt, mLast>>

(***************************************************************************)
(* The polling threads of ApolloClient (client.py lines 60-70, 148-154,    *)
(* 242-268)                                                                *)
(***************************************************************************)

\* How many times the application constructs the client with the same
\* parameters.
MaxConstructions == 2

Pollers == 1..MaxConstructions

VARIABLES
    instances,    \* ApolloClient._instances: the keys registered by __new__
    built,        \* how many times __init__ has been entered
    thr,          \* per started thread, its position in _listener
    stopSet,      \* self._stop_event.is_set()
    everStopped,  \* stop_polling_thread has been called
    stopReturned, \* stop_polling_thread has returned and polling was not started since
    lateWrite,    \* a polling thread wrote the cache, the hash or a file while stopReturned
    owes          \* per thread: stop was requested while the thread was running

pollVars == <<instances, built, thr, stopSet, everStopped, stopReturned,
              lateWrite, owes>>

\* The one key the constructions of this model use: str of their arguments.
ParamsKey == "args"

NoThread == [pc |-> "none", idx |-> 0]
Terminated == {"exited", "dead"}
Running(t) == thr[t].pc \notin ({"none"} \cup Terminated)

\* __new__: the instance registered for the key is returned; a new one is
\* created only when the key is not registered.
New(inst, key) == inst \cup {key}

\* The state __init__ leaves before update_config_server (lines 127-146)
\* when it runs on an existing instance.
ResetFields(st) ==
    [st EXCEPT !.cache = [n \in Namespaces |-> NoEntry],
               !.hash = [n \in Namespaces |-> NoneKey],
               !.host = NoneKey]

\* One iteration of fetch_configuration's loop, for namespace NsOrder[i],
\* with the except clauses and the return that follow it when it is the
\* last one.
FetchConfigurationStep(st, i, h, wr, m, order) ==
    LET res == FetchConfigByNamespace(st, NsOrder[i], h, wr, m)
        caught == res.raised # NoError /\ FetchConfigurationCatches(res.raised)
        st2 == IF res.raised = "ConnectionError"
               THEN LoadLocalCacheFile(res.st, order) ELSE res.st
        ends == res.raised # NoError \/ i = Len(NsOrder)
    IN  [st |-> st2, ends |-> ends,
         raised |-> IF res.raised = NoError \/ caught THEN NoError ELSE res.raised]

PollInit ==
    /\ instances = New({}, ParamsKey)
    /\ built = 1
    /\ thr = [t \in Pollers |-> NoThread]
    /\ stopSet = FALSE
    /\ everStopped = FALSE
    /\ stopReturned = FALSE
    /\ lateWrite = FALSE
    /\ owes = [t \in Pollers |-> FALSE]

\* start_polling_thread: a new Event replaces _stop_event and a new thread
\* runs _listener.
StartPollingThread ==
    LET t == CHOOSE u \in Pollers : thr[u].pc = "none" /\
                 \A v \in Pollers : v < u => thr[v].pc # "none"
    IN  /\ thr' = [thr EXCEPT ![t] = [pc |-> "test", idx |-> 0]]
        /\ stopSet' = FALSE
        /\ stopReturned' = FALSE

\* The application constructs the client again with the same parameters:
\* __new__ and __init__ up to the call of update_config_server.
ConstructAgain ==
    /\ pc \in {"ready", "failed"}
    /\ fcIdx = 0
    /\ built < MaxConstructions
    /\ instances' = New(instances, ParamsKey)
    /\ built' = built + 1
    /\ Install(ResetFields(ClientState))
    /\ pc' = "new"
    /\ UNCHANGED <<fcIdx, lastWritten, lastOp, thr, stopSet, everStopped,
                   stopReturned, lateWrite, owes>>

\* The inputs of one fetch_config_by_namespace call: the answer to the
\* config request, whether the cache file can be opened for writing, the
\* answer to the service discovery request of the failover and the order
\* of os.listdir. An input the call does not read is given one value.
FetchInputs ==
    LET In(h, wr, m, order) == [h |-> h, wr |-> wr, m |-> m, order |-> order]
        Failover == {In([kind |-> "ok", rk |-> r], "openfail", m, UnusedOrder) :
                        r \in ReleaseKeys, m \in MetaOutcomes}
                    \cup {In([kind |-> "malformed", rk |-> NoneKey], "ok", m, UnusedOrder) :
                        m \in MetaOutcomes}
    IN  {In([kind |-> "ok", rk |-> r], "ok", UnusedMeta, UnusedOrder) : r \in ReleaseKeys}
        \cup {In([kind |-> k, rk |-> NoneKey], "ok", UnusedMeta, UnusedOrder) :
                k \in {"non200", "timeout", "connerr"}}
        \cup UNION {{In(i.h, i.wr, i.m, o) :
                        o \in IF i.m.kind = "connerr" THEN ListdirOrders
                              ELSE {UnusedOrder}} : i \in Failover}

\* __init__: update_config_server()
PollConstructStart(m) ==
    /\ pc = "new"
    /\ LET u == UpdateConfigServer(ClientState, NoneKey, m) IN
       /\ Install(u.st)
       /\ pc' = IF u.raised = NoError THEN "fetching" ELSE "failed"
       /\ fcIdx' = IF u.raised = NoError THEN 1 ELSE 0
    /\ UNCHANGED <<lastWritten, lastOp>>
    /\ UNCHANGED pollVars

\* __init__: one iteration of fetch_configuration, and start_polling_thread
\* after the last one.
PollConstructFetch(in) ==
    /\ pc = "fetching"
    /\ LET r == FetchConfigurationStep(ClientState, fcIdx, in.h, in.wr, in.m, in.order)
       IN
       /\ Install(r.st)
       /\ fcIdx' = IF r.ends THEN 0 ELSE fcIdx + 1
       /\ pc' = IF ~r.ends THEN "fetching"
                ELSE IF r.raised = NoError THEN "ready" ELSE "failed"
       /\ IF r.ends /\ r.raised = NoError
          THEN StartPollingThread
          ELSE UNCHANGED <<thr, stopSet, stopReturned>>
    /\ UNCHANGED <<lastWritten, lastOp, instances, built, everStopped, lateWrite, owes>>

\* _listener: the test at the top of the loop.
PollTest(t) ==
    /\ thr[t].pc = "test"
    /\ thr' = [thr EXCEPT ![t] = IF stopSet THEN [pc |-> "exited", idx |-> 0]
                                 ELSE [pc |-> "fetch", idx |-> 1]]
    /\ UNCHANGED <<clientVars, instances, built, stopSet, everStopped,
                   stopReturned, lateWrite, owes>>

\* _listener: one iteration of the loop of fetch_configuration().
PollFetch(t, in) ==
    /\ thr[t].pc = "fetch"
    /\ LET r == FetchConfigurationStep(ClientState, thr[t].idx, in.h, in.wr, in.m, in.order) IN
       /\ Install(r.st)
       /\ thr' = [thr EXCEPT ![t] =
                    IF ~r.ends THEN [pc |-> "fetch", idx |-> thr[t].idx + 1]
                    ELSE IF r.raised = NoError THEN [pc |-> "wait", idx |-> 0]
                    ELSE [pc |-> "dead", idx |-> 0]]
       /\ lateWrite' = (lateWrite \/
                        (stopReturned /\ <<r.st.cache, r.st.hash, r.st.disk>>
                                            # <<cache, hash, disk>>))
    /\ UNCHANGED <<pc, fcIdx, lastWritten, lastOp, instances, built, stopSet,
                   everStopped, stopReturned, owes>>

\* _listener: _stop_event.wait(cycle_time) returns, by the timeout or
\* because the event was set.
PollWake(t) ==
    /\ thr[t].pc = "wait"
    /\ thr' = [thr EXCEPT ![t] = [pc |-> "test", idx |-> 0]]
    /\ UNCHANGED <<clientVars, instances, built, stopSet, everStopped,
                   stopReturned, lateWrite, owes>>

\* stop_polling_thread on the constructed client.
StopPollingThread ==
    /\ pc = "ready"
    /\ stopSet' = TRUE
    /\ everStopped' = TRUE
    /\ stopReturned' = TRUE
    /\ owes' = [t \in Pollers |-> owes[t] \/ Running(t)]
    /\ UNCHANGED <<clientVars, instances, built, thr, lateWrite>>

(***************************************************************************)
(* A cache file read while update_local_file_cache writes it               *)
(* (client.py lines 270-301)                                               *)
(***************************************************************************)

\* The file open(path, "w") leaves before anything is written: it exists,
\* is empty, and json cannot parse it.
TruncatedFile == CorruptFile

\* update_local_file_cache up to open(path, "w") (lines 277-283).
OpenForWrite(st, rk, ns, wr) ==
    IF st.hash[ns] = rk THEN [st |-> st, raised |-> NoError, opened |-> FALSE]
    ELSE IF wr # "ok" THEN [st |-> st, raised |-> "OSError", opened |-> FALSE]
    ELSE [st |-> [st EXCEPT !.disk[ns] = TruncatedFile],
          raised |-> NoError, opened |-> TRUE]

\* update_local_file_cache from f.write to the end (lines 284-286).
WriteAndClose(st, rk, data, ns) ==
    [st EXCEPT !.disk[ns] = JsonFile(data), !.hash[ns] = rk]

\* The refreshing thread calls update_local_file_cache(rk, data, ns): the
\* lock is taken and the file opened.
FileWriteBegin(ns, rk, wr) ==
    /\ pc = "ready" /\ fcIdx = 0
    /\ wPc = "idle"
    /\ lock = "free"
    /\ LET o == OpenForWrite(ClientState, rk, ns, wr) IN
       /\ Install(o.st)
       /\ wPc' = IF o.opened THEN "writing" ELSE "idle"
       /\ wArg' = IF o.opened THEN [ns |-> ns, rk |-> rk, old |-> disk[ns]] ELSE NA
       /\ lock' = IF o.opened THEN "writer" ELSE "free"
    /\ UNCHANGED <<pc, fcIdx, lastWritten, lastOp,
                   rPc, rArg, rRef, rOut, rLin, rRaced, intended>>

\* The content is written, the file closed, the release key recorded and
\* the lock released.
FileWriteEnd ==
    /\ wPc = "writing"
    /\ Install(WriteAndClose(ClientState, wArg.rk, Published(wArg.rk), wArg.ns))
    /\ lastWritten' = [lastWritten EXCEPT ![wArg.ns] = wArg.rk]
    /\ wPc' = "idle"
    /\ wArg' = NA
    /\ lock' = "free"
    /\ UNCHANGED <<pc, fcIdx, lastOp, rPc, rArg, rRef, rOut, rLin, rRaced, intended>>

\* Another thread calls get_local_file_cache(ns). rLin keeps what the file
\* held before the write in progress, what the write is putting there, and
\* what the file holds at the moment of the read.
FileRead(ns) ==
    /\ pc = "ready"
    /\ rPc \in {"idle", "done"}
    /\ rPc' = "done"
    /\ rArg' = [ns |-> ns, key |-> NoneKey]
    /\ rRef' = GetLocalFileCache(ClientState, ns)
    /\ rRaced' = (wPc = "writing" /\ wArg.ns = ns)
    /\ rLin' = IF wPc = "writing" /\ wArg.ns = ns
               THEN [old |-> FileContent(wArg.old), new |-> Published(wArg.rk),
                     seen |-> FileContent(disk[ns])]
               ELSE [old |-> FileContent(disk[ns]), new |-> FileContent(disk[ns]),
                     seen |-> FileContent(disk[ns])]
    /\ UNCHANGED <<rOut, wPc, wArg, lock, intended, clientVars>>

(***************************************************************************)
(* Application threads looking keys up in one ApolloConfigMapping of the   *)
(* package while the service publishes new releases                        *)
(* (mapping.py lines 45-56, 69-77, 86-115)                                 *)
(***************************************************************************)

\* How many application threads call __getitem__, and how many releases
\* the service publishes.
MaxCallers == 2
MaxVersion == 2

Callers == 1..MaxCallers

\* Who holds _lock: nobody, a calling thread, or the notification thread.
NoHolder == 0
Notifier == MaxCallers + 1

VARIABLES
    callers,  \* per application thread, its position in __getitem__ and what it holds
    srvVer,   \* the number of the release the service serves now
    instVer,  \* the number of the release _configs was fetched from
    maxInst,  \* the highest release number ever installed
    live,     \* how many notification threads have been started and run
    holder    \* the thread that holds _lock

lookVars == <<callers, srvVer, instVer, maxInst, live, holder>>

\* A thread outside __getitem__. conf and ver are the configuration map a
\* get_config call returned to it and the release it was served from, held
\* until _load_configs has assigned it; seen
\* and hi are the release its lookup read and the highest release installed
\* by then.
NoCall == [pc |-> "idle", key |-> NoneKey, conf |-> SnapEmpty, ver |-> 0,
           raised |-> NoError, value |-> Absent, seen |-> 0, hi |-> 0]

LookInit ==
    /\ callers = [c \in Callers |-> NoCall]
    /\ srvVer = 1
    /\ instVer = 0
    /\ maxInst = 0
    /\ live = 0
    /\ holder = NoHolder

\* The service publishes a release.
Publish ==
    /\ srvVer < MaxVersion
    /\ srvVer' = srvVer + 1
    /\ UNCHANGED <<callers, instVer, maxInst, live, holder, pkgVars>>

\* __getitem__ up to the refresh check, with _lock taken before the
\* get_config request is sent.
CallerBeginLocked(c, key) ==
    /\ callers[c].pc \in {"idle", "done"}
    /\ holder = NoHolder
    /\ callers' = [callers EXCEPT ![c] =
          [NoCall EXCEPT !.key = key,
                         !.pc = IF PkgIsStale(PkgState, mNow) THEN "fetch"
                                ELSE "thread"]]
    /\ holder' = IF PkgIsStale(PkgState, mNow) THEN c ELSE NoHolder
    /\ UNCHANGED <<srvVer, instVer, maxInst, live, pkgVars>>

\* __getitem__ up to the refresh check; a stale snapshot makes the thread
\* call _load_configs, whose get_config request is then outstanding.
CallerBegin(c, key) ==
    /\ callers[c].pc \in {"idle", "done"}
    /\ callers' = [callers EXCEPT ![c] =
          [NoCall EXCEPT !.key = key,
                         !.pc = IF PkgIsStale(PkgState, mNow) THEN "fetch"
                                ELSE "thread"]]
    /\ UNCHANGED <<srvVer, instVer, maxInst, live, holder, pkgVars>>

\* get_config returns to the thread, or raises.
CallerReceive(c, g) ==
    /\ callers[c].pc = "fetch"
    /\ callers' = [callers EXCEPT ![c] =
          IF GetConfig(g) # NoError
          THEN [@ EXCEPT !.pc = "done", !.raised = GetConfig(g)]
          ELSE IF g.kind = "config"
          THEN [@ EXCEPT !.pc = "install", !.conf = g.conf, !.ver = srvVer]
          ELSE [@ EXCEPT !.pc = "thread"]]
    /\ UNCHANGED <<srvVer, instVer, maxInst, live, holder, pkgVars>>

\* _load_configs: _lock is taken and _configs assigned (lines 50-51).
CallerInstall(c) ==
    /\ callers[c].pc = "install"
    /\ holder = NoHolder
    /\ holder' = c
    /\ LET s == PkgInstallConfig(PkgState,
                    [kind |-> "config", conf |-> callers[c].conf], mNow)
       IN  mConfigs' = s.configs /\ mSnapAt' = s.snapAt
    /\ instVer' = callers[c].ver
    /\ maxInst' = IF callers[c].ver > maxInst THEN callers[c].ver ELSE maxInst
    /\ callers' = [callers EXCEPT ![c] =
          [@ EXCEPT !.pc = "stamp", !.conf = SnapEmpty, !.ver = 0]]
    /\ UNCHANGED <<srvVer, live, mLastRefresh, mCase, mThread, mNow, mLast>>

\* _load_configs: _last_refresh_time assigned, _lock released (line 52).
CallerStamp(c) ==
    /\ callers[c].pc = "stamp"
    /\ holder = c
    /\ mLastRefresh' = mNow
    /\ holder' = NoHolder
    /\ callers' = [callers EXCEPT ![c].pc = "thread"]
    /\ UNCHANGED <<srvVer, instVer, maxInst, live,
                   mConfigs, mCase, mThread, mNow, mSnapAt, mLast>>

\* __getitem__ calls _start_notification_thread (line 104), which tests
\* whether _notification_thread is None or not alive (line 60).
CallerTestThread(c) ==
    /\ callers[c].pc = "thread"
    /\ callers' = [callers EXCEPT ![c].pc =
          IF mThread = "alive" THEN "lookup" ELSE "start"]
    /\ UNCHANGED <<srvVer, instVer, maxInst, live, holder, pkgVars>>

\* _start_notification_thread: the thread is created, assigned to
\* _notification_thread and started (lines 61-66).
CallerStartThread(c) ==
    /\ callers[c].pc = "start"
    /\ mThread' = "alive"
    /\ live' = live + 1
    /\ callers' = [callers EXCEPT ![c].pc = "lookup"]
    /\ UNCHANGED <<srvVer, instVer, maxInst, holder,
                   mConfigs, mLastRefresh, mCase, mNow, mSnapAt, mLast>>

\* __getitem__: the lookup under the lock and the return (lines 107-115).
CallerLookup(c) ==
    /\ callers[c].pc = "lookup"
    /\ holder = NoHolder
    /\ LET f == PkgFind(PkgState, mCase, callers[c].key) IN
       callers' = [callers EXCEPT ![c] =
          [@ EXCEPT !.pc = "done", !.raised = f.raised, !.value = f.value,
                    !.seen = instVer, !.hi = maxInst]]
    /\ UNCHANGED <<srvVer, instVer, maxInst, live, holder, pkgVars>>

\* The notification thread: long_polling hands on_config_update the
\* configuration of the release the service serves, and the callback takes
\* _lock and assigns _configs (lines 73-75).
CallbackInstall(g) ==
    /\ mThread = "alive"
    /\ g.kind = "config"
    /\ holder = NoHolder
    /\ holder' = Notifier
    /\ LET s == PkgInstallConfig(PkgState, g, mNow)
       IN  mConfigs' = s.configs /\ mSnapAt' = s.snapAt
    /\ instVer' = srvVer
    /\ maxInst' = IF srvVer > maxInst THEN srvVer ELSE maxInst
    /\ UNCHANGED <<callers, srvVer, live, mLastRefresh, mCase, mThread, mNow,
                   mLast>>

\* on_config_update: _last_refresh_time assigned, _lock released (line 76).
CallbackStamp ==
    /\ holder = Notifier
    /\ mLastRefresh' = mNow
    /\ holder' = NoHolder
    /\ UNCHANGED <<callers, srvVer, instVer, maxInst, live,
                   mConfigs, mCase, mThread, mNow, mSnapAt, mLast>>

(***************************************************************************)
(* The flat ApolloConfigMapping against a service that answers every       *)
(* config request with 200 and the configuration it has published          *)
(* (apollo.py lines 50-105)                                                *)
(***************************************************************************)

\* The configurations the service publishes: non-empty maps, which
\* _load_configs installs.
ServedConfs == {SnapLower, SnapUpper}

VARIABLES
    srvConf,    \* the configuration the service has published
    changedAt,  \* time.time() when it was published
    pending,    \* the response the worker's _load_configs is waiting to install
    wk          \* the worker's position in its loop, and when it went to sleep

srvVars == <<srvConf, changedAt, pending, wk>>

NoResponse == [kind |-> "none", conf |-> SnapEmpty, rk |-> NoneKey]

\* The 200 answer of the service to a config request.
ServerAnswer ==
    CHOOSE h \in FlatHttpOutcomes :
        h.kind = "ok" /\ h.conf = srvConf /\ h.rk # NoneKey

SrvInit ==
    /\ srvConf \in ServedConfs
    /\ changedAt = 0
    /\ pending = NoResponse
    /\ wk = [pc |-> "poll", since |-> 0]

\* The service publishes another configuration.
ServerPublish(c) ==
    /\ c # srvConf
    /\ srvConf' = c
    /\ changedAt' = fNow
    /\ UNCHANGED <<pending, wk, flatVars>>

\* mapping[key] while the service answers 200.
SrvLookup(key) ==
    /\ FlatLookup(key, ServerAnswer)
    /\ UNCHANGED srvVars

\* notification_worker: the long poll is answered, and when the first
\* entry's notificationId differs from _notification_id, _load_configs
\* sends its request, which the service answers (lines 72-88, 53-56).
WorkerPoll(n) ==
    /\ wk.pc = "poll"
    /\ n.kind = "ok" => n.id >= fServerId
    /\ LET differs == n.kind = "ok" /\ IntId(n.id) # fNotifId IN
       /\ pending' = IF differs THEN ServerAnswer ELSE NoResponse
       /\ wk' = IF differs THEN [pc |-> "load", since |-> 0]
                ELSE [pc |-> "sleep", since |-> fNow]
       /\ fLast' = FlatOp("notification", NoneKey, Absent, differs, n.kind, n.id)
    /\ fServerId' = IF n.kind = "ok" THEN n.id ELSE fServerId
    /\ UNCHANGED <<srvConf, changedAt, fConfigs, fLastUpdate, fNotifId, fCase,
                   fNow, fSnapAt>>

\* _load_configs of the worker: the response has arrived and is installed
\* under the lock (lines 57-63).
WorkerInstall ==
    /\ wk.pc = "load"
    /\ FlatInstall(FlatLoadConfigs(FlatState, pending, fNow))
    /\ pending' = NoResponse
    /\ wk' = [pc |-> "sleep", since |-> fNow]
    /\ fLast' = FlatOp("load", NoneKey, Absent, TRUE, FlatLabel(TRUE, pending), 0)
    /\ UNCHANGED <<srvConf, changedAt, fCase, fNow, fServerId>>

\* notification_worker: time.sleep(1) at the end of every iteration
\* (line 90) returns once a second has passed.
WorkerSleep ==
    /\ wk.pc = "sleep"
    /\ fNow >= wk.since + 1
    /\ wk' = [pc |-> "poll", since |-> 0]
    /\ fLast' = FlatOp("sleep", NoneKey, Absent, FALSE, "none", 0)
    /\ UNCHANGED <<srvConf, changedAt, pending, fConfigs, fLastUpdate, fNotifId,
                   fCase, fNow, fSnapAt, fServerId>>

(***************************************************************************)
(* The settings ApolloSettingsSource.__call__ returns                      *)
(* (source.py lines 46-73)                                                 *)
(***************************************************************************)

FieldNames == {Fields[i] : i \in 1..Len(Fields)}

\* What the environment source returns for the declared fields: a value or
\* nothing for each.
EnvSettings == [FieldNames -> {Absent, "env"}]

NoSettings == [f \in FieldNames |-> Absent]

\* The loop of __call__ from field i on, collecting apollo_settings: a found
\* key is stored under the field's name, a KeyError skips the field, any
\* other exception ends the call. seen is the set of snapshots the lookups
\* read.
RECURSIVE SourceCollect(_, _, _, _, _, _, _)
SourceCollect(st, cs, gs, now, i, acc, seen) ==
    IF i > Len(Fields)
    THEN [st |-> st, raised |-> NoError, apollo |-> acc, seen |-> seen]
    ELSE LET r == PkgGetItem(st, cs, Fields[i], gs[i], now) IN
         IF r.raised \notin {NoError, "KeyError"}
         THEN [st |-> r.st, raised |-> r.raised, apollo |-> acc, seen |-> seen]
         ELSE SourceCollect(r.st, cs, gs, now, i + 1,
                 IF r.raised = NoError
                 THEN [acc EXCEPT ![Fields[i]] = r.value] ELSE acc,
                 seen \cup {r.st.configs})

\* {**env_settings, **apollo_settings} (line 71).
MergeSettings(env, apollo) ==
    [f \in FieldNames |-> IF apollo[f] # Absent THEN apollo[f] ELSE env[f]]

\* source(settings) with the environment source returning env: the settings
\* dictionary returned, or the exception raised.
PkgSourceSettings(gs, env) ==
    LET r == SourceCollect(PkgState, mCase, gs, mNow, 1, NoSettings, {}) IN
    /\ PkgInstall(r.st)
    /\ mLast' = [op |-> "settings", key |-> NoneKey, raised |-> r.raised,
                 value |-> Absent, fetched |-> PkgIsStale(PkgState, mNow),
                 got |-> GotLabel(PkgIsStale(PkgState, mNow), gs[1]),
                 env |-> env,
                 settings |-> IF r.raised = NoError
                              THEN MergeSettings(env, r.apollo) ELSE NoSettings,
                 torn |-> Cardinality(r.seen) > 1]
    /\ UNCHANGED <<mCase, mNow>>

(***************************************************************************)
(* Threads of several ApolloClient instances writing the cache files       *)
(* (client.py lines 60-63, 270-286)                                        *)
(***************************************************************************)

\* How many threads call update_local_file_cache, and on how many client
\* instances that share a cache directory and an app id.
MaxWriters == 2
MaxInstances == 2

Writers == 1..MaxWriters
Instances == 1..MaxInstances

\* ApolloClient._cache_file_write_lock when no thread holds it.
Unlocked == 0

VARIABLES
    writers,   \* per thread, its position in update_local_file_cache and its arguments
    fileLock,  \* the thread holding ApolloClient._cache_file_write_lock
    hashes     \* per instance, its _hash

writeVars == <<writers, fileLock, hashes>>

NoWrite == [pc |-> "idle", inst |-> 0, ns |-> NA, rk |-> NoneKey]

\* The threads inside the `with self._cache_file_write_lock` block.
InSection == {w \in Writers : writers[w].pc \in {"open", "write", "record"}}

WriteInit ==
    /\ writers = [w \in Writers |-> NoWrite]
    /\ fileLock = Unlocked
    /\ hashes = [i \in Instances |-> [n \in Namespaces |-> NoneKey]]

\* update_local_file_cache(rk, Published(rk), ns) on instance i: the test
\* of the recorded release key (line 277).
WriterCall(w, i, ns, rk) ==
    /\ writers[w].pc = "idle"
    /\ writers' = [writers EXCEPT ![w] =
          IF hashes[i][ns] # rk
          THEN [pc |-> "wait", inst |-> i, ns |-> ns, rk |-> rk]
          ELSE NoWrite]
    /\ UNCHANGED <<fileLock, hashes, disk>>

\* The lock taken by a thread when no thread of the same instance holds it.
WriterAcquirePerInstance(w) ==
    /\ writers[w].pc = "wait"
    /\ \A v \in InSection : writers[v].inst # writers[w].inst
    /\ fileLock' = w
    /\ writers' = [writers EXCEPT ![w].pc = "open"]
    /\ UNCHANGED <<hashes, disk>>

\* with self._cache_file_write_lock (line 278): the lock is an attribute of
\* the class, one for all instances.
WriterAcquire(w) ==
    /\ writers[w].pc = "wait"
    /\ fileLock = Unlocked
    /\ fileLock' = w
    /\ writers' = [writers EXCEPT ![w].pc = "open"]
    /\ UNCHANGED <<hashes, disk>>

\* open(path, "w") (line 283): the file is truncated, or OSError leaves the
\* with block, which releases the lock.
WriterOpen(w, wr) ==
    /\ writers[w].pc = "open"
    /\ IF wr = "ok"
       THEN /\ disk' = [disk EXCEPT ![writers[w].ns] = TruncatedFile]
            /\ writers' = [writers EXCEPT ![w].pc = "write"]
            /\ UNCHANGED fileLock
       ELSE /\ writers' = [writers EXCEPT ![w] = NoWrite]
            /\ fileLock' = Unlocked
            /\ UNCHANGED disk
    /\ UNCHANGED hashes

\* json.dumps, f.write and the close of the file (lines 284-285).
WriterWrite(w) ==
    /\ writers[w].pc = "write"
    /\ disk' = [disk EXCEPT ![writers[w].ns] = JsonFile(Published(writers[w].rk))]
    /\ writers' = [writers EXCEPT ![w].pc = "record"]
    /\ UNCHANGED <<fileLock, hashes>>

\* self._hash[namespace] = release_key (line 286) and the release of the
\* lock.
WriterRecord(w) ==
    /\ writers[w].pc = "record"
    /\ hashes' = [hashes EXCEPT ![writers[w].inst][writers[w].ns] = writers[w].rk]
    /\ fileLock' = Unlocked
    /\ writers' = [writers EXCEPT ![w] = NoWrite]
    /\ UNCHANGED disk

(***************************************************************************)
(* The signature of a request (client.py lines 186-224, 303-313)           *)
(***************************************************************************)

\* How many query parameters a url or a params dict carries at most.
MaxParams == 2

\* Query parameters: a name and a value. Rank orders the names as Python
\* orders the strings.
ParamNames == {"a", "b"}
Rank(k) == IF k = "a" THEN 1 ELSE 2
Params == ParamNames \X {"1", "2"}
ParamLists == UNION {[1..n -> Params] : n \in 0..MaxParams}

Timestamps == {1000, 2000}
RequestPath == "/configs/app/default/application"

VARIABLE
    sign  \* the last request _http_get sent: its arguments and its headers

signVars == <<sign>>

NoHeaders == [signed |-> FALSE, timestamp |-> 0, toSign |-> <<>>,
              authorization |-> <<>>]

\* _url_to_path_with_query: the path and the query of the url as written.
UrlToPathWithQuery(url) == <<url.path, url.query>>

\* _sign_string: base64 of the HMAC-SHA1 of the string under the secret,
\* which differs for different strings.
SignString(stringToSign, secret) == <<"hmac-sha1", secret, stringToSign>>

\* _build_http_headers
BuildHttpHeaders(url, appId, secret, timestamp) ==
    LET stringToSign == <<timestamp, UrlToPathWithQuery(url)>> IN
    [signed |-> TRUE, timestamp |-> timestamp, toSign |-> stringToSign,
     authorization |-> <<appId, SignString(stringToSign, secret)>>]

\* The query of the request requests.get sends: the url's own query
\* followed by the params.
RequestQuery(url, params) == url.query \o params

SignInit ==
    sign = [url |-> [path |-> RequestPath, query |-> <<>>], params |-> <<>>,
            headers |-> NoHeaders]

\* _http_get(url, params) of a client with an app secret (lines 304-312).
HttpGetSigned(query, params, timestamp) ==
    LET url == [path |-> RequestPath, query |-> query] IN
    sign' = [url |-> url, params |-> params,
             headers |-> BuildHttpHeaders(url, "app", "secret", timestamp)]

\* _http_get(url, params) of a client without an app secret: no headers.
HttpGetUnsigned(query, params) ==
    sign' = [url |-> [path |-> RequestPath, query |-> query], params |-> params,
             headers |-> NoHeaders]

(***************************************************************************)
(* Stopping a mapping (ApolloConfigMapping.stop and the notification loop) *)
(***************************************************************************)

VARIABLES
    mStop,     \* _stop_notification
    mStopped   \* stop() has been called and has returned

stopVars == <<mStop, mStopped>>

StopInit ==
    /\ mStop = FALSE
    /\ mStopped = FALSE

\* mapping[key] with the flag of _start_notification_thread: when the thread
\* is missing or no longer alive, the flag is cleared and a new thread is
\* started (mapping.py lines 60-66).
StopLookup(key, g) ==
    /\ PkgLookup(key, g)
    /\ mStop' = IF mThread # "alive" /\ mThread' = "alive" THEN FALSE ELSE mStop
    /\ UNCHANGED mStopped

\* _notification_loop: the test of the while loop finds the flag set and
\* the thread ends.
NotificationLoopExit ==
    /\ mThread = "alive"
    /\ mStop
    /\ mThread' = "exited"
    /\ mLast' = [op |-> "exit", key |-> NoneKey, raised |-> NoError,
                 value |-> Absent, fetched |-> FALSE, got |-> "none"]
    /\ UNCHANGED <<mConfigs, mLastRefresh, mCase, mNow, mSnapAt, mStop, mStopped>>

\* stop(): the flag is set; join(timeout=1) returns whether or not the
\* thread has ended; stop_long_polling() does not touch the mapping.
MappingStop ==
    /\ mStop' = TRUE
    /\ mStopped' = TRUE
    /\ mLast' = [op |-> "stop", key |-> NoneKey, raised |-> NoError,
                 value |-> Absent, fetched |-> FALSE, got |-> "none"]
    /\ UNCHANGED <<mConfigs, mLastRefresh, mCase, mThread, mNow, mSnapAt>>

(***************************************************************************)
(* Reloading the cache files (load_local_cache_file, client.py 386-410)    *)
(***************************************************************************)

\* The namespaces of a client of which one has an underscore in its name,
\* the names a cache entry can be stored under, and the orders in which
\* os.listdir can give the two cache files.
ReloadNamespaces == {"application", "my_ns"}
CacheNames == ReloadNamespaces \cup {"ns"}
ReloadOrders == {<<"application", "my_ns">>, <<"my_ns", "application">>}

\* The client after a construction in which every config request was
\* answered with a non-200 status and no cache file could be read.
ReloadInit ==
    /\ cache = [n \in CacheNames |->
                   IF n \in ReloadNamespaces THEN Entry(EmptyMap) ELSE NoEntry]
    /\ hash = [n \in ReloadNamespaces |-> NoneKey]
    /\ disk \in [ReloadNamespaces -> {NoFile, CorruptFile}]
    /\ host = LocalHost
    /\ pc = "ready"
    /\ fcIdx = 0
    /\ lastWritten = [n \in ReloadNamespaces |-> NoneKey]
    /\ lastOp = OpRecord("none", NoneKey, "none", NoneKey, NoError, FALSE, NA, NA)

\* A direct call of load_local_cache_file().
ReloadCall(order) ==
    /\ pc = "ready" /\ fcIdx = 0
    /\ Install(LoadLocalCacheFile(ClientState, order))
    /\ lastOp' = OpRecord("load_local_cache_file", NoneKey, "none", NoneKey,
                          NoError, FALSE, NA, NA)
    /\ UNCHANGED <<pc, fcIdx, lastWritten>>

(***************************************************************************)
(* Specifications                                                          *)
(***************************************************************************)

\* The component the application drives: "client" (ApolloClient), "flat"
\* (apollo.py's mapping) or "package" (apollo/mapping.py's mapping).
VARIABLE component

vars == <<clientVars, flatVars, pkgVars, thrVars, pollVars, lookVars, srvVars, writeVars, signVars, stopVars, component>>

\* A component no specification step touches: the client before its
\* constructor with no cache files, the flat mapping as constructed.
ClientIdle == ClientInit /\ disk = [n \in Namespaces |-> NoFile]
FlatIdle == FlatInit /\ fCase
PkgIdle == PkgInit /\ mCase
ThreadsIdle == ThreadsStart /\ intended = NoEntry
PollIdle == PollInit
LookIdle == LookInit
SrvIdle == SrvInit /\ srvConf = SnapLower
WriteIdle == WriteInit
SignIdle == SignInit
StopIdle == StopInit

\* ApolloClient alone.
Init == component = "client" /\ ClientInit /\ FlatIdle /\ PkgIdle /\ ThreadsIdle /\ PollIdle /\ LookIdle /\ SrvIdle /\ WriteIdle /\ SignIdle /\ StopIdle
Next ==
    \/ (\E m \in MetaOutcomes : ConstructStart(m)) /\ UNCHANGED <<flatVars, pkgVars, thrVars, pollVars, lookVars, srvVars, writeVars, signVars, stopVars, component>>
    \/ (\E ns \in Namespaces, rk \in ReleaseKeys : FetchOk(ns, rk))
          /\ UNCHANGED <<flatVars, pkgVars, thrVars, pollVars, lookVars, srvVars, writeVars, signVars, stopVars, component>>
    \/ (\E ns \in Namespaces, rk \in ReleaseKeys, m \in MetaOutcomes,
           order \in ListdirOrders : FetchOkWriteFails(ns, rk, m, order))
          /\ UNCHANGED <<flatVars, pkgVars, thrVars, pollVars, lookVars, srvVars, writeVars, signVars, stopVars, component>>
    \/ (\E ns \in Namespaces : FetchNon200(ns)) /\ UNCHANGED <<flatVars, pkgVars, thrVars, pollVars, lookVars, srvVars, writeVars, signVars, stopVars, component>>
    \/ (\E ns \in Namespaces, kind \in {"timeout", "connerr"} :
           FetchTransportFails(ns, kind)) /\ UNCHANGED <<flatVars, pkgVars, thrVars, pollVars, lookVars, srvVars, writeVars, signVars, stopVars, component>>
    \/ (\E ns \in Namespaces, m \in MetaOutcomes, order \in ListdirOrders :
           FetchMalformed(ns, m, order)) /\ UNCHANGED <<flatVars, pkgVars, thrVars, pollVars, lookVars, srvVars, writeVars, signVars, stopVars, component>>
    \/ FetchConfigurationStart /\ UNCHANGED <<flatVars, pkgVars, thrVars, pollVars, lookVars, srvVars, writeVars, signVars, stopVars, component>>
    \/ (\E ns \in Namespaces, rk \in ReleaseKeys, wr \in WriteOutcomes :
           Persist(ns, rk, wr)) /\ UNCHANGED <<flatVars, pkgVars, thrVars, pollVars, lookVars, srvVars, writeVars, signVars, stopVars, component>>
Spec == Init /\ [][Next]_vars

\* The flat ApolloConfigMapping alone.
InitFlat == component = "flat" /\ FlatInit /\ ClientIdle /\ PkgIdle /\ ThreadsIdle /\ PollIdle /\ LookIdle /\ SrvIdle /\ WriteIdle /\ SignIdle /\ StopIdle
NextFlat ==
    \/ FlatTick /\ UNCHANGED <<clientVars, pkgVars, thrVars, pollVars, lookVars, srvVars, writeVars, signVars, stopVars, component>>
    \/ (\E key \in LookupKeys, h \in FlatHttpOutcomes : FlatLookup(key, h))
          /\ UNCHANGED <<clientVars, pkgVars, thrVars, pollVars, lookVars, srvVars, writeVars, signVars, stopVars, component>>
    \/ (\E n \in NotifOutcomes, h \in FlatHttpOutcomes : FlatNotification(n, h))
          /\ UNCHANGED <<clientVars, pkgVars, thrVars, pollVars, lookVars, srvVars, writeVars, signVars, stopVars, component>>
SpecFlat == InitFlat /\ [][NextFlat]_vars

\* The package's ApolloConfigMapping and ApolloSettingsSource alone.
InitPkg == component = "package" /\ PkgInit /\ ClientIdle /\ FlatIdle /\ ThreadsIdle /\ PollIdle /\ LookIdle /\ SrvIdle /\ WriteIdle /\ SignIdle /\ StopIdle
NextPkg ==
    \/ PkgTick /\ UNCHANGED <<clientVars, flatVars, thrVars, pollVars, lookVars, srvVars, writeVars, signVars, stopVars, component>>
    \/ (\E key \in LookupKeys, g \in GetConfigOutcomes : PkgLookup(key, g))
          /\ UNCHANGED <<clientVars, flatVars, thrVars, pollVars, lookVars, srvVars, writeVars, signVars, stopVars, component>>
    \/ (\E key \in LookupKeys, g \in GetConfigOutcomes : PkgLookupGet(key, g))
          /\ UNCHANGED <<clientVars, flatVars, thrVars, pollVars, lookVars, srvVars, writeVars, signVars, stopVars, component>>
    \/ (\E gs \in [1..Len(Fields) -> GetConfigOutcomes] : PkgSourceCall(gs))
          /\ UNCHANGED <<clientVars, flatVars, thrVars, pollVars, lookVars, srvVars, writeVars, signVars, stopVars, component>>
    \/ (\E g \in GetConfigOutcomes : PkgNotification(g))
          /\ UNCHANGED <<clientVars, flatVars, thrVars, pollVars, lookVars, srvVars, writeVars, signVars, stopVars, component>>
SpecPkg == InitPkg /\ [][NextPkg]_vars

\* Either ApolloConfigMapping class: the application uses one of the two.
InitMappings == InitFlat \/ InitPkg
NextMappings ==
    \/ /\ component = "flat"
       /\ FlatTick /\ UNCHANGED <<clientVars, pkgVars, thrVars, pollVars, lookVars, srvVars, writeVars, signVars, stopVars, component>>
    \/ /\ component = "flat"
       /\ (\E key \in LookupKeys, h \in FlatHttpOutcomes : FlatLookup(key, h))
              /\ UNCHANGED <<clientVars, pkgVars, thrVars, pollVars, lookVars, srvVars, writeVars, signVars, stopVars, component>>
    \/ /\ component = "flat"
       /\ (\E n \in NotifOutcomes, h \in FlatHttpOutcomes : FlatNotification(n, h))
              /\ UNCHANGED <<clientVars, pkgVars, thrVars, pollVars, lookVars, srvVars, writeVars, signVars, stopVars, component>>
    \/ /\ component = "package"
       /\ PkgTick /\ UNCHANGED <<clientVars, flatVars, thrVars, pollVars, lookVars, srvVars, writeVars, signVars, stopVars, component>>
    \/ /\ component = "package"
       /\ (\E key \in LookupKeys, g \in GetConfigOutcomes : PkgLookup(key, g))
              /\ UNCHANGED <<clientVars, flatVars, thrVars, pollVars, lookVars, srvVars, writeVars, signVars, stopVars, component>>
    \/ /\ component = "package"
       /\ (\E key \in LookupKeys, g \in GetConfigOutcomes : PkgLookupGet(key, g))
              /\ UNCHANGED <<clientVars, flatVars, thrVars, pollVars, lookVars, srvVars, writeVars, signVars, stopVars, component>>
    \/ /\ component = "package"
       /\ (\E gs \in [1..Len(Fields) -> GetConfigOutcomes] : PkgSourceCall(gs))
              /\ UNCHANGED <<clientVars, flatVars, thrVars, pollVars, lookVars, srvVars, writeVars, signVars, stopVars, component>>
    \/ /\ component = "package"
       /\ (\E g \in GetConfigOutcomes : PkgNotification(g))
              /\ UNCHANGED <<clientVars, flatVars, thrVars, pollVars, lookVars, srvVars, writeVars, signVars, stopVars, component>>
SpecMappings == InitMappings /\ [][NextMappings]_vars

\* A reading thread and a refreshing thread on one ApolloClient, or on one
\* ApolloConfigMapping of the package.
InitReaders ==
    \/ /\ component = "client"
       /\ ClientInit /\ FlatIdle /\ PkgIdle
       /\ ThreadsStart /\ intended = [n \in Namespaces |-> NoEntry]
       /\ PollIdle /\ LookIdle /\ SrvIdle /\ WriteIdle /\ SignIdle /\ StopIdle
    \/ /\ component = "package"
       /\ PkgInit /\ ClientIdle /\ FlatIdle
       /\ ThreadsStart /\ intended = Entry(SnapEmpty)
       /\ PollIdle /\ LookIdle /\ SrvIdle /\ WriteIdle /\ SignIdle /\ StopIdle
NextReaders ==
    \/ /\ component = "client"
       /\ (\E m \in MetaOutcomes : ConstructStart(m))
              /\ UNCHANGED <<flatVars, pkgVars, thrVars, pollVars, lookVars, srvVars, writeVars, signVars, stopVars, component>>
    \/ /\ component = "client"
       /\ FetchConfigurationStart /\ wPc = "idle"
              /\ UNCHANGED <<flatVars, pkgVars, thrVars, pollVars, lookVars, srvVars, writeVars, signVars, stopVars, component>>
    \/ /\ component = "client"
       /\ (\E ns \in Namespaces, h \in HttpOutcomes, wr \in WriteOutcomes :
               RefreshTry(ns, h, wr)) /\ UNCHANGED <<flatVars, pkgVars, pollVars, lookVars, srvVars, writeVars, signVars, stopVars, component>>
    \/ /\ component = "client"
       /\ (\E m \in MetaOutcomes, order \in ListdirOrders : RefreshExcept(m, order))
              /\ UNCHANGED <<flatVars, pkgVars, pollVars, lookVars, srvVars, writeVars, signVars, stopVars, component>>
    \/ /\ component = "client"
       /\ (\E ns \in Namespaces, key \in Keys : GetValueCheck(ns, key))
              /\ UNCHANGED <<flatVars, pkgVars, pollVars, lookVars, srvVars, writeVars, signVars, stopVars, component>>
    \/ /\ component = "client"
       /\ GetValueLoad /\ UNCHANGED <<flatVars, pkgVars, pollVars, lookVars, srvVars, writeVars, signVars, stopVars, component>>
    \/ /\ component = "client"
       /\ GetValueReturn /\ UNCHANGED <<flatVars, pkgVars, pollVars, lookVars, srvVars, writeVars, signVars, stopVars, component>>
    \/ /\ component = "package"
       /\ PkgTick /\ UNCHANGED <<clientVars, flatVars, thrVars, pollVars, lookVars, srvVars, writeVars, signVars, stopVars, component>>
    \/ /\ component = "package"
       /\ (\E key \in LookupKeys : PkgReadBegin(key))
              /\ UNCHANGED <<clientVars, flatVars, pollVars, lookVars, srvVars, writeVars, signVars, stopVars, component>>
    \/ /\ component = "package"
       /\ (\E g \in GetConfigOutcomes : PkgReadFetch(g))
              /\ UNCHANGED <<clientVars, flatVars, pollVars, lookVars, srvVars, writeVars, signVars, stopVars, component>>
    \/ /\ component = "package"
       /\ PkgReadInstall /\ UNCHANGED <<clientVars, flatVars, pollVars, lookVars, srvVars, writeVars, signVars, stopVars, component>>
    \/ /\ component = "package"
       /\ PkgReadStamp /\ UNCHANGED <<clientVars, flatVars, pollVars, lookVars, srvVars, writeVars, signVars, stopVars, component>>
    \/ /\ component = "package"
       /\ PkgReadStartThread /\ UNCHANGED <<clientVars, flatVars, pollVars, lookVars, srvVars, writeVars, signVars, stopVars, component>>
    \/ /\ component = "package"
       /\ PkgReadLookup /\ UNCHANGED <<clientVars, flatVars, pollVars, lookVars, srvVars, writeVars, signVars, stopVars, component>>
    \/ /\ component = "package"
       /\ (\E g \in GetConfigOutcomes : PkgNotifyInstall(g))
              /\ UNCHANGED <<clientVars, flatVars, pollVars, lookVars, srvVars, writeVars, signVars, stopVars, component>>
    \/ /\ component = "package"
       /\ PkgNotifyStamp /\ UNCHANGED <<clientVars, flatVars, pollVars, lookVars, srvVars, writeVars, signVars, stopVars, component>>
SpecReaders == InitReaders /\ [][NextReaders]_vars


\* ApolloClient with its polling threads: the application constructs the
\* client, may construct it again, and may stop the polling.
InitPollers ==
    /\ component = "client"
    /\ ClientInit /\ FlatIdle /\ PkgIdle /\ ThreadsIdle
    /\ PollInit /\ LookIdle /\ SrvIdle /\ WriteIdle /\ SignIdle /\ StopIdle
NextPollers ==
    \/ (\E m \in MetaOutcomes : PollConstructStart(m))
          /\ UNCHANGED <<flatVars, pkgVars, thrVars, lookVars, srvVars, writeVars, signVars, stopVars, component>>
    \/ (\E in \in FetchInputs : PollConstructFetch(in))
          /\ UNCHANGED <<flatVars, pkgVars, thrVars, lookVars, srvVars, writeVars, signVars, stopVars, component>>
    \/ ConstructAgain /\ UNCHANGED <<flatVars, pkgVars, thrVars, lookVars, srvVars, writeVars, signVars, stopVars, component>>
    \/ (\E t \in Pollers : PollTest(t))
          /\ UNCHANGED <<flatVars, pkgVars, thrVars, lookVars, srvVars, writeVars, signVars, stopVars, component>>
    \/ (\E t \in Pollers, in \in FetchInputs : PollFetch(t, in))
          /\ UNCHANGED <<flatVars, pkgVars, thrVars, lookVars, srvVars, writeVars, signVars, stopVars, component>>
    \/ (\E t \in Pollers : PollWake(t))
          /\ UNCHANGED <<flatVars, pkgVars, thrVars, lookVars, srvVars, writeVars, signVars, stopVars, component>>
    \/ StopPollingThread /\ UNCHANGED <<flatVars, pkgVars, thrVars, lookVars, srvVars, writeVars, signVars, stopVars, component>>
SpecPollers == InitPollers /\ [][NextPollers]_vars

\* The polling threads are scheduled: a thread that can take a step of
\* _listener eventually takes it, every request it makes returning.
PollerStep(t) ==
    (PollTest(t) \/ PollWake(t) \/ \E in \in FetchInputs : PollFetch(t, in))
        /\ UNCHANGED <<flatVars, pkgVars, thrVars, lookVars, srvVars, writeVars, signVars, stopVars, component>>
SpecPollersFair ==
    SpecPollers /\ \A t \in Pollers : WF_vars(PollerStep(t))

\* ApolloClient with a thread that writes the cache files and a thread
\* that reads them.
InitFiles ==
    /\ component = "client"
    /\ ClientInit /\ FlatIdle /\ PkgIdle /\ ThreadsIdle /\ PollIdle /\ LookIdle /\ SrvIdle /\ WriteIdle /\ SignIdle /\ StopIdle
NextFiles ==
    \/ (\E m \in MetaOutcomes : ConstructStart(m))
          /\ UNCHANGED <<flatVars, pkgVars, thrVars, pollVars, lookVars, srvVars, writeVars, signVars, stopVars, component>>
    \/ (\E ns \in Namespaces, rk \in ReleaseKeys : wPc = "idle" /\ FetchOk(ns, rk))
          /\ UNCHANGED <<flatVars, pkgVars, thrVars, pollVars, lookVars, srvVars, writeVars, signVars, stopVars, component>>
    \/ (\E ns \in Namespaces : wPc = "idle" /\ FetchNon200(ns))
          /\ UNCHANGED <<flatVars, pkgVars, thrVars, pollVars, lookVars, srvVars, writeVars, signVars, stopVars, component>>
    \/ (\E ns \in Namespaces, rk \in ReleaseKeys, wr \in WriteOutcomes :
           FileWriteBegin(ns, rk, wr))
          /\ UNCHANGED <<flatVars, pkgVars, pollVars, lookVars, srvVars, writeVars, signVars, stopVars, component>>
    \/ FileWriteEnd /\ UNCHANGED <<flatVars, pkgVars, pollVars, lookVars, srvVars, writeVars, signVars, stopVars, component>>
    \/ (\E ns \in Namespaces : FileRead(ns))
          /\ UNCHANGED <<flatVars, pkgVars, pollVars, lookVars, srvVars, writeVars, signVars, stopVars, component>>
SpecFiles == InitFiles /\ [][NextFiles]_vars

\* The package's ApolloConfigMapping used by several application threads.
InitLookups ==
    /\ component = "package"
    /\ PkgInit /\ ClientIdle /\ FlatIdle /\ ThreadsIdle /\ PollIdle
    /\ LookInit /\ SrvIdle /\ WriteIdle /\ SignIdle /\ StopIdle
NextLookups ==
    \/ PkgTick /\ UNCHANGED <<clientVars, flatVars, thrVars, pollVars, lookVars, srvVars, writeVars, signVars, stopVars, component>>
    \/ Publish /\ UNCHANGED <<clientVars, flatVars, thrVars, pollVars, srvVars, writeVars, signVars, stopVars, component>>
    \/ (\E c \in Callers, key \in LookupKeys : CallerBegin(c, key))
          /\ UNCHANGED <<clientVars, flatVars, thrVars, pollVars, srvVars, writeVars, signVars, stopVars, component>>
    \/ (\E c \in Callers, g \in GetConfigOutcomes : CallerReceive(c, g))
          /\ UNCHANGED <<clientVars, flatVars, thrVars, pollVars, srvVars, writeVars, signVars, stopVars, component>>
    \/ (\E c \in Callers : CallerInstall(c))
          /\ UNCHANGED <<clientVars, flatVars, thrVars, pollVars, srvVars, writeVars, signVars, stopVars, component>>
    \/ (\E c \in Callers : CallerStamp(c))
          /\ UNCHANGED <<clientVars, flatVars, thrVars, pollVars, srvVars, writeVars, signVars, stopVars, component>>
    \/ CallbackStamp
          /\ UNCHANGED <<clientVars, flatVars, thrVars, pollVars, srvVars, writeVars, signVars, stopVars, component>>
    \/ (\E c \in Callers : CallerTestThread(c))
          /\ UNCHANGED <<clientVars, flatVars, thrVars, pollVars, srvVars, writeVars, signVars, stopVars, component>>
    \/ (\E c \in Callers : CallerStartThread(c))
          /\ UNCHANGED <<clientVars, flatVars, thrVars, pollVars, srvVars, writeVars, signVars, stopVars, component>>
    \/ (\E c \in Callers : CallerLookup(c))
          /\ UNCHANGED <<clientVars, flatVars, thrVars, pollVars, srvVars, writeVars, signVars, stopVars, component>>
    \/ (\E g \in GetConfigOutcomes : CallbackInstall(g))
          /\ UNCHANGED <<clientVars, flatVars, thrVars, pollVars, srvVars, writeVars, signVars, stopVars, component>>
SpecLookups == InitLookups /\ [][NextLookups]_vars

\* The flat ApolloConfigMapping, its worker and a service that answers 200.
InitFlatServer ==
    /\ component = "flat"
    /\ FlatInit /\ ClientIdle /\ PkgIdle /\ ThreadsIdle /\ PollIdle /\ LookIdle
    /\ SrvInit /\ WriteIdle /\ SignIdle /\ StopIdle
NextFlatServer ==
    \/ FlatTick /\ UNCHANGED <<clientVars, pkgVars, thrVars, pollVars, lookVars, srvVars, writeVars, signVars, stopVars, component>>
    \/ (\E c \in ServedConfs : ServerPublish(c))
          /\ UNCHANGED <<clientVars, pkgVars, thrVars, pollVars, lookVars, writeVars, signVars, stopVars, component>>
    \/ (\E key \in LookupKeys : SrvLookup(key))
          /\ UNCHANGED <<clientVars, pkgVars, thrVars, pollVars, lookVars, writeVars, signVars, stopVars, component>>
    \/ (\E n \in NotifOutcomes : WorkerPoll(n))
          /\ UNCHANGED <<clientVars, pkgVars, thrVars, pollVars, lookVars, writeVars, signVars, stopVars, component>>
    \/ WorkerInstall
          /\ UNCHANGED <<clientVars, pkgVars, thrVars, pollVars, lookVars, writeVars, signVars, stopVars, component>>
    \/ WorkerSleep
          /\ UNCHANGED <<clientVars, pkgVars, thrVars, pollVars, lookVars, writeVars, signVars, stopVars, component>>
SpecFlatServer == InitFlatServer /\ [][NextFlatServer]_vars

\* ApolloSettingsSource of the package called by the settings layer.
InitSource ==
    /\ component = "package"
    /\ PkgInit /\ ClientIdle /\ FlatIdle /\ ThreadsIdle /\ PollIdle /\ LookIdle
    /\ SrvIdle /\ WriteIdle /\ SignIdle /\ StopIdle
NextSource ==
    \/ PkgTick /\ UNCHANGED <<clientVars, flatVars, thrVars, pollVars, lookVars, srvVars, writeVars, signVars, stopVars, component>>
    \/ (\E gs \in [1..Len(Fields) -> GetConfigOutcomes], env \in EnvSettings :
           PkgSourceSettings(gs, env))
          /\ UNCHANGED <<clientVars, flatVars, thrVars, pollVars, lookVars, srvVars, writeVars, signVars, stopVars, component>>
    \/ (\E g \in GetConfigOutcomes : PkgNotification(g))
          /\ UNCHANGED <<clientVars, flatVars, thrVars, pollVars, lookVars, srvVars, writeVars, signVars, stopVars, component>>
SpecSource == InitSource /\ [][NextSource]_vars

\* Threads of several ApolloClient instances writing the cache files.
InitWriters ==
    /\ component = "client"
    /\ ClientIdle /\ FlatIdle /\ PkgIdle /\ ThreadsIdle /\ PollIdle /\ LookIdle
    /\ SrvIdle /\ WriteInit /\ SignIdle /\ StopIdle
NextWriters ==
    \/ (\E w \in Writers, i \in Instances, ns \in Namespaces, rk \in ReleaseKeys :
           WriterCall(w, i, ns, rk))
          /\ UNCHANGED <<cache, hash, host, pc, fcIdx, lastWritten, lastOp, flatVars, pkgVars,
                       thrVars, pollVars, lookVars, srvVars, signVars, stopVars, component>>
    \/ (\E w \in Writers : WriterAcquire(w))
          /\ UNCHANGED <<cache, hash, host, pc, fcIdx, lastWritten, lastOp, flatVars, pkgVars,
                       thrVars, pollVars, lookVars, srvVars, signVars, stopVars, component>>
    \/ (\E w \in Writers, wr \in WriteOutcomes : WriterOpen(w, wr))
          /\ UNCHANGED <<cache, hash, host, pc, fcIdx, lastWritten, lastOp, flatVars, pkgVars,
                       thrVars, pollVars, lookVars, srvVars, signVars, stopVars, component>>
    \/ (\E w \in Writers : WriterWrite(w))
          /\ UNCHANGED <<cache, hash, host, pc, fcIdx, lastWritten, lastOp, flatVars, pkgVars,
                       thrVars, pollVars, lookVars, srvVars, signVars, stopVars, component>>
    \/ (\E w \in Writers : WriterRecord(w))
          /\ UNCHANGED <<cache, hash, host, pc, fcIdx, lastWritten, lastOp, flatVars, pkgVars,
                       thrVars, pollVars, lookVars, srvVars, signVars, stopVars, component>>
SpecWriters == InitWriters /\ [][NextWriters]_vars

\* Requests sent through _http_get.
InitSign ==
    /\ component = "client"
    /\ ClientIdle /\ FlatIdle /\ PkgIdle /\ ThreadsIdle /\ PollIdle /\ LookIdle
    /\ SrvIdle /\ WriteIdle /\ SignInit /\ StopIdle
NextSign ==
    \/ (\E q \in ParamLists, ps \in ParamLists, t \in Timestamps :
           HttpGetSigned(q, ps, t))
          /\ UNCHANGED <<clientVars, flatVars, pkgVars, thrVars, pollVars, lookVars, srvVars,
                       writeVars, stopVars, component>>
    \/ (\E q \in ParamLists, ps \in ParamLists : HttpGetUnsigned(q, ps))
          /\ UNCHANGED <<clientVars, flatVars, pkgVars, thrVars, pollVars, lookVars, srvVars,
                       writeVars, stopVars, component>>
SpecSign == InitSign /\ [][NextSign]_vars

\* One ApolloConfigMapping with lookups, membership tests, its notification
\* thread and stop().
InitStop ==
    /\ component = "package"
    /\ PkgInit /\ ClientIdle /\ FlatIdle /\ ThreadsIdle /\ PollIdle /\ LookIdle
    /\ SrvIdle /\ WriteIdle /\ SignIdle /\ StopInit
NextStop ==
    \/ PkgTick /\ UNCHANGED stopVars
          /\ UNCHANGED <<clientVars, flatVars, thrVars, pollVars, lookVars, srvVars, writeVars, signVars, component>>
    \/ (\E key \in LookupKeys, g \in GetConfigOutcomes : StopLookup(key, g))
          /\ UNCHANGED <<clientVars, flatVars, thrVars, pollVars, lookVars, srvVars, writeVars, signVars, component>>
    \/ (\E g \in GetConfigOutcomes : PkgNotification(g)) /\ UNCHANGED stopVars
          /\ UNCHANGED <<clientVars, flatVars, thrVars, pollVars, lookVars, srvVars, writeVars, signVars, component>>
    \/ (\E key \in LookupKeys : PkgContainsCall(key)) /\ UNCHANGED stopVars
          /\ UNCHANGED <<clientVars, flatVars, thrVars, pollVars, lookVars, srvVars, writeVars, signVars, component>>
    \/ NotificationLoopExit
          /\ UNCHANGED <<clientVars, flatVars, thrVars, pollVars, lookVars, srvVars, writeVars, signVars, component>>
    \/ MappingStop
          /\ UNCHANGED <<clientVars, flatVars, thrVars, pollVars, lookVars, srvVars, writeVars, signVars, component>>
SpecStop == InitStop /\ [][NextStop]_vars

\* One ApolloClient whose cache files are written and loaded again.
InitReload ==
    /\ component = "client"
    /\ ReloadInit /\ FlatIdle /\ PkgIdle /\ ThreadsIdle /\ PollIdle /\ LookIdle
    /\ SrvIdle /\ WriteIdle /\ SignIdle /\ StopIdle
NextReload ==
    \/ (\E ns \in ReloadNamespaces, rk \in ReleaseKeys, wr \in WriteOutcomes :
           Persist(ns, rk, wr))
          /\ UNCHANGED <<flatVars, pkgVars, thrVars, pollVars, lookVars, srvVars, writeVars, signVars, stopVars, component>>
    \/ (\E order \in ReloadOrders : ReloadCall(order))
          /\ UNCHANGED <<flatVars, pkgVars, thrVars, pollVars, lookVars, srvVars, writeVars, signVars, stopVars, component>>
SpecReload == InitReload /\ [][NextReload]_vars

(***************************************************************************)
(* Properties of ApolloClient                                              *)
(***************************************************************************)

\* What get_value can read of a namespace: its map, or nothing.
CacheView(ns) == IF cache[ns].present THEN cache[ns].data ELSE EmptyMap

IsFetch(op) == op.op = "fetch_config_by_namespace"

\* C1: after a fetch_config_by_namespace(N) whose request timed out or could
\* not connect, the in-memory entry of N equals what N's cache file holds, or
\* the empty mapping if there is no file.
C1_TransportFailureLoadsDiskCache ==
    (IsFetch(lastOp) /\ lastOp.http \in {"timeout", "connerr"})
        => CacheView(lastOp.ns) = FileContent(disk[lastOp.ns])

\* C2: for every outcome of the config request, fetch_config_by_namespace and
\* fetch_configuration return normally; the only error they may surface is an
\* unusable cache directory (OSError).
C2_FetchNeverRaises ==
    IsFetch(lastOp) => /\ lastOp.raised \in {NoError, "OSError"}
                       /\ lastOp.fc \in {NA, NoError, "OSError"}

\* C3: a call of update_local_file_cache that returns writes the cache file
\* if and only if its release key differs from the release key of the last
\* completed write of that namespace.
C3_WriteIffReleaseKeyChanged ==
    [][(lastOp'.op = "update_local_file_cache" /\ lastOp'.raised = NoError)
        => (lastOp'.wrote <=> lastOp'.rk # lastWritten[lastOp'.ns])]_vars

\* C3 witness: a second call with the release key of the last write has
\* returned without writing.
C3_Witness ==
    /\ lastOp.op = "update_local_file_cache"
    /\ lastOp.raised = NoError
    /\ ~lastOp.wrote
    /\ lastWritten[lastOp.ns] = lastOp.rk

\* C4: a fetch_config_by_namespace(N) answered with a non-200 status sets the
\* in-memory entry of N to the content of N's cache file and leaves the other
\* entries, the recorded release keys and the cache files unchanged.
C4_Non200LoadsDiskCache ==
    [][(IsFetch(lastOp') /\ lastOp'.http = "non200")
        => /\ cache'[lastOp'.ns] = Entry(FileContent(disk[lastOp'.ns]))
           /\ \A o \in Namespaces \ {lastOp'.ns} : cache'[o] = cache[o]
           /\ hash' = hash
           /\ disk' = disk]_vars

\* C4 witness: after a 200 fetch of release r2 whose file write was skipped or
\* after an earlier run left release r1's content on disk, a non-200 answer
\* has put the file's content in the entry.
C4_Witness ==
    /\ IsFetch(lastOp) /\ lastOp.http = "non200"
    /\ disk[lastOp.ns].kind = "json"
    /\ cache[lastOp.ns] = Entry(ConfA)

\* C5: constructing the client while service discovery or the config
\* requests fail completes without raising.
C5_ConstructNeverRaises == lastOp.init \in {NA, NoError}

\* C16: a fetch_config_by_namespace whose request timed out or could not
\* connect leaves the client on a config server address other than the one
\* that failed (the discovery service lists http://cs1:8080/, which is not
\* the address in use), and no fetch is ended by an error of the failover
\* step.
C16_FailoverSelectsOtherCandidate ==
    [][IsFetch(lastOp') =>
          /\ lastOp'.http \in {"timeout", "connerr"} => host' # host
          /\ lastOp'.raised \notin {"IndexError", "ApolloHttpError"}]_vars

(***************************************************************************)
(* Properties of the two ApolloConfigMapping classes                       *)
(***************************************************************************)

IsPkgLookup(op) == op.op \in {"getitem", "get"}

\* C6: when the refresh of a lookup fails because get_config raises,
\* __getitem__, get and ApolloSettingsSource.__call__ do not raise because
\* of it: __getitem__ may only raise KeyError for an absent key.
C6_FetchErrorsStayInMapping ==
    /\ mLast.op = "getitem" => mLast.raised \in {NoError, "KeyError"}
    /\ mLast.op \in {"get", "call"} => mLast.raised = NoError

\* The age, at the end of a lookup, of the snapshot it answered from.
FlatAge == fNow - fSnapAt
PkgAge == mNow - mSnapAt

InstalledNothing == {"non200", "error", "ok-empty", "none"}

SameIgnoringCase(a, b) ==
    \/ a = b
    \/ {a, b} \subseteq {"key", "Key", "KEY"}

\* The value a snapshot stores under the key equal to key ignoring case.
StoredIgnoringCase(configs, key) ==
    LET hits == {k \in StoredKeys : configs[k] # Absent /\ SameIgnoringCase(k, key)}
    IN  IF hits = {} THEN Absent ELSE configs[CHOOSE k \in hits : TRUE]

\* C9: with case_sensitive disabled a lookup returns the value stored under
\* the snapshot key that equals the requested key ignoring case (so two
\* requests differing only in case get the same result).
C9_CaseInsensitiveLookup ==
    /\ (fLast.op = "getitem" /\ ~fCase)
          => fLast.result = StoredIgnoringCase(fConfigs, fLast.key)
    /\ (IsPkgLookup(mLast) /\ ~mCase /\ mLast.raised \in {NoError, "KeyError"})
          => mLast.value = StoredIgnoringCase(mConfigs, mLast.key)

\* C10: after a 200 notification response with notificationId i is handled,
\* the tracked notification id equals i.
C10_TrackedIdFollowsResponse ==
    (fLast.op = "notification" /\ fLast.http = "ok") => fNotifId = IntId(fLast.id)

\* C11: a 200 notification response triggers a config fetch if and only if
\* its notificationId differs from the id of the last response handled
\* before it.
C11_OneFetchPerIdChange ==
    [][(fLast'.op = "notification" /\ fLast'.http = "ok")
        => (fLast'.fetched <=> fLast'.id # fServerId)]_vars

(***************************************************************************)
(* Properties of readers running while a refresh replaces a snapshot       *)
(***************************************************************************)

\* C7: under every interleaving of a reader (ApolloClient.get_value, the
\* package's ApolloConfigMapping.__getitem__) with a refresh, the value the
\* reader returns is the one the key has in the single map that was the
\* installed snapshot at the moment the reader read the dict: the default
\* only if that map lacks the key or no map had been installed.
C7_ReaderSeesOneInstalledSnapshot ==
    rPc = "done" =>
        IF component = "client"
        THEN rOut.value = EntryGet(rLin, rArg.key)
        ELSE rOut.raised \in {NoError, "KeyError"} =>
                LET f == PkgFind([configs |-> rLin.data], mCase, rArg.key)
                IN  rOut = [raised |-> f.raised, value |-> f.value]

\* C7 witness: a get_value call returned a configured value although a
\* refresh replaced its namespace's snapshot between its membership test and
\* its return.
C7_Witness ==
    /\ component = "client"
    /\ rPc = "done"
    /\ rRaced
    /\ rOut.value # Absent

(***************************************************************************)
(* Properties of the polling threads                                       *)
(***************************************************************************)

\* C12: a polling thread terminates only after stop_polling_thread has been
\* called; no outcome of a fetch ends its loop.
C12_StoppedOnlyByStop ==
    [][\A t \in Pollers :
          (thr[t].pc \notin Terminated /\ thr'[t].pc \in Terminated)
              => everStopped]_vars

\* C13: every polling thread that was running when stop_polling_thread was
\* called eventually terminates.
C13_StopTerminatesPollers ==
    \A t \in Pollers : owes[t] ~> (thr[t].pc \in Terminated)

\* A step in which a config request for the first namespace is answered,
\* and the answer is not 200 with the configuration of release r1.
UnhealthyAnswer ==
    \E in \in FetchInputs :
        /\ in.h # [kind |-> "ok", rk |-> "r1"]
        /\ \/ \E t \in Pollers : thr[t].idx = 1 /\ PollFetch(t, in)
           \/ fcIdx = 1 /\ PollConstructFetch(in)

\* C32: if the client is not stopped and from some point on every config
\* request for a namespace is answered 200 with the same configuration,
\* then, once polling has started, the cache entry of the namespace
\* eventually equals that configuration, also when earlier requests failed.
\* The client is constructed once, so no second construction empties it.
C32_RecoversAfterOutage ==
    ([](built = 1) /\ <>[][~UnhealthyAnswer]_vars)
        => ((\E t \in Pollers : thr[t].pc # "none")
                ~> (cache["application"] = Entry(Published("r1")) \/ everStopped))

\* C14: after stop_polling_thread has returned, no polling thread writes the
\* in-memory cache, the recorded release keys or a cache file.
C14_NoWriteAfterStop == ~lateWrite

\* C15: however often the client is constructed with the same parameters,
\* one instance is registered and at most one polling thread is running.
C15_OneInstanceOnePoller ==
    /\ Cardinality(instances) = 1
    /\ Cardinality({t \in Pollers : Running(t)}) <= 1

\* C35: constructing the client again with the same parameters leaves the
\* in-memory cache and the recorded release keys of the instance as they
\* were, and a stop event that has been set stays set.
C35_ReconstructionKeepsState ==
    [][/\ built' # built => UNCHANGED <<cache, hash>>
       /\ stopSet => stopSet']_vars

(***************************************************************************)
(* Properties of the cache files                                           *)
(***************************************************************************)

\* C17: a get_local_file_cache that runs while update_local_file_cache is
\* writing the same namespace's file returns the complete content the file
\* had before the write or the complete content being written.
C17_ReaderSeesCompleteFile ==
    (rPc = "done" /\ rRaced) => rRef \in {rLin.old, rLin.new}

\* C18: get_local_file_cache(N) returns the mapping stored in N's cache file
\* when the file holds valid JSON and the empty mapping when the file is
\* missing or cannot be parsed, and the call changes neither the cache files
\* nor the in-memory cache nor the recorded release keys.
C18_TolerantCacheRead ==
    [][(<<rPc, rArg, rRef, rLin, rRaced>>' # <<rPc, rArg, rRef, rLin, rRaced>>)
        => /\ rPc' = "done"
           /\ rRef' = FileContent(disk[rArg'.ns])
           /\ disk[rArg'.ns].kind # "json" => rRef' = EmptyMap
           /\ UNCHANGED <<cache, hash, disk>>]_vars

\* C18 witness: a read of a file that cannot be parsed, with no write in
\* progress, returned the empty mapping, and a read of the other namespace's
\* file would find a published configuration.
C18_Witness ==
    /\ rPc = "done"
    /\ wPc = "idle"
    /\ disk[rArg.ns] = CorruptFile
    /\ rRef = EmptyMap
    /\ \E o \in Namespaces \ {rArg.ns} : disk[o].kind = "json"

(***************************************************************************)
(* Properties of the application threads' lookups                          *)
(***************************************************************************)

\* The application threads whose get_config request is outstanding.
InFlight == {c \in Callers : callers[c].pc = "fetch"}

\* C19: at most one fetch of the mapping's namespace is in flight at any
\* moment; a thread that finds the snapshot stale while another thread's
\* fetch is outstanding does not issue a second one.
C19_OneFetchInFlight == Cardinality(InFlight) <= 1

\* C27: an ApolloConfigMapping instance has at most one live notification
\* thread in every reachable state, concurrent first lookups from several
\* threads included.
C27_OneNotificationThread == live <= 1

\* C29: _lock is held only while the snapshot and the last-refresh time are
\* assigned or read, never while a get_config request is outstanding: a
\* thread waiting for its response does not hold it, so a lookup by another
\* thread is held up by no fetch, completes as soon as no assignment is
\* under way, and returns the value of the snapshot installed at that
\* moment.
C29_LockNotHeldAcrossFetch ==
    /\ [](\A c \in Callers :
            /\ callers[c].pc = "fetch" => holder # c
            /\ (callers[c].pc = "lookup" /\ holder # NoHolder)
                  => \/ holder = Notifier
                     \/ callers[holder].pc = "stamp"
            /\ (callers[c].pc = "lookup" /\ holder = NoHolder)
                  => ENABLED CallerLookup(c))
    /\ [][\A c \in Callers :
            (callers[c].pc = "lookup" /\ callers'[c].pc = "done")
                => callers'[c].value =
                      PkgFind(PkgState, mCase, callers[c].key).value]_vars

\* A thread finishes a lookup that found the snapshot fresh and read a
\* stored value while another thread's get_config request is outstanding.
C29_Witness ==
    \E c, d \in Callers :
        /\ c # d
        /\ callers[d].pc = "fetch"
        /\ callers[c].pc = "done"
        /\ callers[c].raised = NoError
        /\ callers[c].value # Absent

\* C20: snapshot updates take effect in the order of the releases they were
\* fetched from: no lookup reads a snapshot of a release older than one that
\* was installed before it, so the response of an older fetch never replaces
\* a newer installed snapshot.
C20_NoOlderSnapshotAfterNewer ==
    \A c \in Callers :
        callers[c].pc = "done" => callers[c].seen >= callers[c].hi

(***************************************************************************)
(* Properties of the flat mapping's loads                                  *)
(***************************************************************************)

\* A step in which _load_configs ran and the config request ended as h: a
\* stale lookup, or a worker iteration whose notificationId differed.
FlatLoaded(h) ==
    \/ /\ FlatIsStale(FlatState, fNow)
       /\ \E key \in LookupKeys : FlatLookup(key, h)
    \/ \E n \in NotifOutcomes :
          /\ n.kind = "ok" /\ IntId(n.id) # fNotifId
          /\ FlatNotification(n, h)

\* C21: after _load_configs completed with a 200 response the mapping equals
\* the response's configurations map, also when that map is empty: no key
\* absent from the response remains.
C21_OkFetchInstallsResponse ==
    [][\A h \in FlatHttpOutcomes :
          (h.kind = "ok" /\ FlatLoaded(h)) => fConfigs' = h.conf]_vars

\* The number of keys the mapping holds: __len__.
FlatLen == Cardinality({k \in StoredKeys : fConfigs[k] # Absent})

\* C22: _load_configs of the flat mapping never raises, and when the request
\* fails or the response is not 200 it leaves the loaded configurations, the
\* last update time and the notification id unchanged; a mapping that never
\* loaded successfully has length 0.
C22_FailedLoadIsHarmless ==
    /\ [](fLastUpdate = 0 => FlatLen = 0)
    /\ [][\A h \in FlatHttpOutcomes :
             FlatLoaded(h) =>
                /\ FlatEscapes(h) = {}
                /\ h.kind \in {"non200", "error"}
                      => UNCHANGED <<fConfigs, fLastUpdate, fNotifId>>]_vars

\* A stale lookup whose request failed, on a mapping holding a key an
\* earlier load installed.
C22_Witness ==
    /\ fLast.op = "getitem" /\ fLast.fetched
    /\ fLast.http \in {"non200", "error"}
    /\ fConfigs = SnapLower /\ fLastUpdate > 0

\* C23: when the service has changed its published configuration and keeps
\* answering 200 with it, every lookup made more than refresh_interval after
\* the change returns the value of the new configuration.
C23_UpdateVisibleAfterInterval ==
    [][(fLast'.op = "getitem" /\ fNow - changedAt > RefreshInterval)
        => fLast'.result =
              FlatGetItem([FlatState EXCEPT !.configs = srvConf], fCase,
                          fLast'.key)]_vars

(***************************************************************************)
(* Properties of the settings source                                       *)
(***************************************************************************)

\* The value the mapping holds for a field after the call, Absent when the
\* key is not in the mapping.
ApolloValue(f) ==
    LET r == PkgFind([PkgState EXCEPT !.configs = mConfigs'], mCase, f)
    IN  IF r.raised = NoError THEN r.value ELSE Absent

\* C24: for every declared field, __call__ returns the Apollo value when the
\* key is in the mapping (overriding the environment's value), the
\* environment's value when it is not, and skips the key without raising
\* when it is in neither. Calls whose lookups read different snapshots are
\* left aside.
C24_AdapterKeyLookup ==
    [][mLast'.op = "settings" =>
          /\ mLast'.raised = NoError
          /\ ~mLast'.torn =>
                \A f \in FieldNames :
                    mLast'.settings[f] =
                        IF ApolloValue(f) # Absent THEN ApolloValue(f)
                        ELSE mLast'.env[f]]_vars

(***************************************************************************)
(* Properties of the flat mapping's notification id                        *)
(***************************************************************************)

\* C25: the tracked notification id is an integer in every reachable state,
\* starts at -1 and never decreases, whatever polls, fetches and lookups
\* are made.
C25_NotificationIdMonotonic ==
    /\ fNotifId = IntId(-1)
    /\ [](fNotifId[1] = "int")
    /\ [][(fNotifId[1] = "int" /\ fNotifId'[1] = "int")
            => fNotifId'[2] >= fNotifId[2]]_vars

\* C28: when a long-poll request ends with HTTP 304 or with a timeout or
\* transport exception, the notifier changes neither the snapshot, the
\* last-refresh time nor the notification id, stays alive, and issues the
\* next poll at once, with no sleep step in between.
C28_NoChangePollsAgainAtOnce ==
    [][(fLast'.op = "notification" /\ fLast'.http \in {"304", "error"})
        => /\ UNCHANGED <<fConfigs, fLastUpdate, fNotifId>>
           /\ wk'.pc = "poll"]_vars

\* C26: a lookup, also one that refreshes the snapshot, leaves the tracked
\* notification id unchanged; only the worker's handling of a notification
\* response changes it.
C26_LookupKeepsNotificationId ==
    [][fNotifId' # fNotifId => fLast'.op = "notification"]_vars

(***************************************************************************)
(* Properties of the cache file writers                                    *)
(***************************************************************************)

\* C30: at no time are two threads, whatever their namespaces and client
\* instances, both inside the file-writing section of
\* update_local_file_cache, and the recorded release key of a namespace is
\* advanced only once the file write for that release has completed.
C30_SerializedDiskWrites ==
    /\ [](Cardinality(InSection) <= 1)
    /\ [][\A i \in Instances, ns \in Namespaces :
            hashes'[i][ns] # hashes[i][ns]
                => /\ disk[ns] = JsonFile(Published(hashes'[i][ns]))
                   /\ fileLock # Unlocked
                   /\ writers[fileLock].inst = i]_vars

\* A thread of one instance is inside the section, with the file truncated,
\* while a thread of the other instance waits for the lock to write the
\* same file.
C30_Witness ==
    \E w, v \in Writers :
        /\ writers[w].pc = "write"
        /\ writers[v].pc = "wait"
        /\ writers[w].inst # writers[v].inst
        /\ writers[w].ns = writers[v].ns
        /\ \E i \in Instances, n \in Namespaces : hashes[i][n] # NoneKey

(***************************************************************************)
(* Properties of the request signature                                     *)
(***************************************************************************)

\* The parameters of a list whose name has rank r, in the order of the list.
RECURSIVE OfRank(_, _)
OfRank(ps, r) ==
    IF ps = <<>> THEN <<>>
    ELSE (IF Rank(Head(ps)[1]) = r THEN <<Head(ps)>> ELSE <<>>)
         \o OfRank(Tail(ps), r)

\* The parameters sorted by name.
SortedByName(ps) == OfRank(ps, 1) \o OfRank(ps, 2)

C33_FetchSurvivesWriteFailure ==
    [][\A ns \in Namespaces, rk \in ReleaseKeys, m \in MetaOutcomes,
          order \in ListdirOrders :
          (hash[ns] # rk /\ FetchOkWriteFails(ns, rk, m, order))
              => /\ cache'[ns] = Entry(Published(rk))
                 /\ lastOp'.raised = NoError]_vars

(***************************************************************************)
(* Properties of a stopped mapping                                         *)
(***************************************************************************)

\* C34: once stop() has returned, no later step clears the stop flag or
\* starts a new notification thread.
C34_PollerStaysStopped ==
    [][mStopped => /\ mStop'
                   /\ ~(mThread # "alive" /\ mThread' = "alive")]_vars

\* C36: of concurrent update_local_file_cache calls for the same namespace
\* with the same release key, one writes the file: no thread opens the file
\* of a namespace for a release key that its instance has already recorded.
C36_ConcurrentPersistWritesOnce ==
    [][\A w \in Writers :
          (writers[w].pc = "open" /\ writers'[w].pc = "write")
              => hashes[writers[w].inst][writers[w].ns] # writers[w].rk]_vars

\* C37: `key in mapping` is true exactly when `mapping[key]`, made in the
\* same state, returns a value instead of raising KeyError, whatever the
\* refresh of the lookup is answered.
C37_MembershipAgreesWithLookup ==
    [][mLast'.op = "contains" =>
          \A g \in GetConfigOutcomes :
              LET r == PkgGetItem(PkgState, mCase, mLast'.key, g, mNow) IN
              r.raised \in {NoError, "KeyError"}
                  => ((mLast'.got = "True") <=> (r.raised = NoError))]_vars

(***************************************************************************)
(* Properties of the reload of the cache files                             *)
(***************************************************************************)

\* C38: load_local_cache_file sets the cache entry of every namespace whose
\* file holds persisted data to that data, also when the name has an
\* underscore and when another file is corrupt, and adds no entry under
\* any other name.
C38_ReloadRoundTrip ==
    [][lastOp'.op = "load_local_cache_file" =>
          /\ \A n \in ReloadNamespaces :
                 disk[n].kind = "json" => cache'[n] = Entry(JsonLoad(disk[n].text))
          /\ \A n \in CacheNames :
                 (~cache[n].present /\ cache'[n].present)
                     => (n \in ReloadNamespaces /\ disk[n].kind = "json")]_vars

====
